---- MODULE Spec2Model ----
(***************************************************************************)
(* Sprite-sheet packing, frame deduplication, switch-animation synthesis   *)
(* and metadata emission of the chomp asset pipeline                       *)
(* (processing/createAttackSpritesheets.py, processing/createSpritesheets  *)
(* .py, processing/spritesheet.py).                                        *)
(*                                                                         *)
(* The module holds several state machines over one set of variables.     *)
(* Each specification starts one of them and leaves the others idle:       *)
(*   SpecPack   build_spritesheet, one loop iteration per step             *)
(*   SpecDedup  process_gachachacha_variants, one frame index per step     *)
(*   SpecSlice  find_valid_attack_pngs and extract_frames_from_spritesheet *)
(*              on one PNG, one cell per step                              *)
(*   SpecMorph  create_morph_animation / create_morphing_animation on one  *)
(*              silhouette, one frame per step                             *)
(*   SpecSave   the saves of one run: save_and_compress_png on every atlas, *)
(*              one call of the compression tool per step, then the        *)
(*              metadata document                                          *)
(*   SpecSilhouette  to_white_silhouette / create_white_frame on one frame, *)
(*              applied once and once more                                 *)
(*   SpecSwitchGif  process_gif_folder of drool/switch-animation.py over a  *)
(*              folder of GIFs, one process_single_gif per step            *)
(*   SpecRun    one run of a script over a target directory: the attack    *)
(*              pipeline (createAttackSpritesheets.py), the mon pipeline   *)
(*              (createSpritesheets.py) or its predecessor (spritesheet.py)*)
(***************************************************************************)
EXTENDS Integers, Sequences, FiniteSets, TLC

VARIABLES
    \* ---- build_spritesheet (createAttackSpritesheets.py:168-184) ----
    n_frames,       \* len(frames)
    frame_size,     \* (frame_w, frame_h)
    cols,           \* grid columns
    rows,           \* grid rows
    sheet,          \* the canvas: [size |-> <<W, H>>, pasted |-> set of top-left corners]
    positions,      \* list of (x, y), one per frame pasted so far
    pack_pc,        \* "idle" | "start" | "loop" | "done" | "ZeroDivisionError"

    \* ---- process_gachachacha_variants (createAttackSpritesheets.py:111-165) ----
    variant_names,          \* list(variant_frames.keys()), in path order
    variant_frames,         \* name -> list of extracted frames
    frame_count,            \* len of the first variant's frame list
    unique_frames,          \* the pool
    frame_hash_to_index,    \* hash -> pool index (0-based)
    variant_indices,        \* name -> list of pool indices (0-based)
    frame_idx,              \* loop variable of line 136
    dedup_pc,               \* "idle" | "start" | "loop" | "done" | "IndexError"

    \* ---- find_valid_attack_pngs / extract_frames_from_spritesheet on one file
    \*      (createAttackSpritesheets.py:38-103) ----
    png,            \* the file: [name |-> f.stem, size |-> img.size]
    result,         \* find_valid_attack_pngs' list: <<>> or one (name, cols, rows, source, output)
    frames,         \* extract_frames_from_spritesheet's list of frames
    slice_pc,       \* "idle" | "find" | "extract" | "done"

    \* ---- one run of a script (main / run) ----
    script,             \* "attack" | "mon" | "legacy": the script run
    target_dir,         \* "no_arg" | "missing" | "present"
    files,              \* the images of the target directory: name -> file
    munch_assets_dir,   \* munch_assets_dir.exists()
    json_file,          \* the metadata document on disk: [kind, entries]
    at_start,           \* files and json_file as the run found them
    png_files,          \* find_valid_attack_pngs' result
    gif_files,          \* find_96x96_gifs' result
    existing_metadata,  \* the previous document as loaded
    metadata,           \* the metadata dict being built
    written,            \* the output paths saved by this run
    atlases,            \* the attack atlases saved: path -> [size, cells]
    earlier_run,        \* the run before this one over the directory, or NoRun
    exit_status,        \* -1 while running, then the process' exit status
    raised,             \* "" or the exception that ended the run
    run_pc,             \* "idle" | "start" | "found" | "loaded" | "standard" |
                        \* "packed" | "sheets" | "main" | "exit"

    \* ---- create_morph_animation ----
    white_pixels,       \* the opaque pixels of start_frame, row by row
    is_back,            \* the diamond sits in the lower left quadrant
    num_frames,         \* MORPH_FRAMES / num_frames
    diamond_pixels,     \* the pixels of the target diamond, row by row
    pixel_data,         \* per start pixel: start, target, survives
    morph_frames,       \* the frames rendered so far
    morph_pc,           \* "idle" | "start" | "frames" | "done" |
                        \* "ZeroDivisionError"

    \* ---- the saves of one run ----
    save_script,        \* "attack" | "mon"
    save_plan,          \* the paths save_and_compress_png is called on, in order
    save_idx,           \* how many of them are done
    saved,              \* the files on disk: path -> "uncompressed" | "compressed"
    tool_outcome,       \* how the last call of the compression tool ended
    json_saved,         \* the metadata document has been written
    save_pc,            \* "idle" | "save" | "compress" | "json" | "done" | "raised"

    \* ---- the silhouette of one frame ----
    silhouette_of,      \* "" | "to_white_silhouette" | "create_white_frame"
    original_frame,     \* the frame: [size, data], data its pixels row by row
    white_frame,        \* its silhouette, <<>> before the call
    white_again,        \* the silhouette of the silhouette, <<>> before the call

    \* ---- process_gif_folder of switch-animation.py ----
    input_folder,       \* the GIFs glob found, in its order: [name, size, mode, readable]
    gif_idx,            \* how many of them have been handled
    output_folder,      \* the GIFs written: <<base name, suffix>> -> frames saved
    switch_pc,          \* "idle" | "loop" | "done"

    \* ---- main of run.py, and main of createAddressAndABIs.py ----
    deploy_entry,       \* "" | "run.py" | "createAddressAndABIs.py"
    mons_returncode,    \* return code of createMonsAndMoves.py, -1 when not run
    proceed_response,   \* the answer to "Proceed with deployment?", "" before
    deploy_done,        \* how many of DEPLOY_SCRIPTS have succeeded
    all_env_lines,      \* the KEY=VALUE lines collected, each <<key, value>>
    env_file,           \* the .env file: key -> value
    abis_argv,          \* the arguments createAddressAndABIs.py is started with
    abis_stdin,         \* the lines on its standard input
    abis_result,        \* what its main did, NoAbisResult before
    deploy_exit,        \* exit status of the entry script, -1 while it runs
    deploy_pc,          \* "idle" | "step1" | "forge" | "abis" | "complete" | "exit"

    \* ---- main of createMonsAndMoves.py and of generateDeployMon.py ----
    mc_script,          \* "" | "createMonsAndMoves.py" | "generateDeployMon.py"
    csv_exists,         \* drool/moves.csv exists
    src_exists,         \* src/ exists
    csv_readable,       \* load_csv_data reads the file without raising
    moves,              \* per CSV row: "ok" | "mismatch" | "missing" (its contract)
    validation_results, \* of the last validator: per contract found, [errors]
    update_responses,   \* the answers given to "update the .sol files?"
    mc_raised,          \* the exception run_move_check caught, "" for none
    should_proceed,     \* what run_move_check returned: "unset" | "True" | "False"
    steps_run,          \* the later steps started, in order
    mc_exit,            \* exit status, -1 while the script runs
    mc_pc               \* "idle" | "step1" | "step2" | "step3" | "done"

packVars == <<n_frames, frame_size, cols, rows, sheet, positions, pack_pc>>

dedupVars == <<variant_names, variant_frames, frame_count, unique_frames,
               frame_hash_to_index, variant_indices, frame_idx, dedup_pc>>

sliceVars == <<png, result, frames, slice_pc>>

runVars == <<script, target_dir, files, munch_assets_dir, json_file, at_start,
             png_files, gif_files, existing_metadata, metadata, written,
             atlases, earlier_run, exit_status, raised, run_pc>>

morphVars == <<white_pixels, is_back, num_frames, diamond_pixels, pixel_data,
               morph_frames, morph_pc>>

saveVars == <<save_script, save_plan, save_idx, saved, tool_outcome, json_saved,
              save_pc>>

silhouetteVars == <<silhouette_of, original_frame, white_frame, white_again>>

switchGifVars == <<input_folder, gif_idx, output_folder, switch_pc>>

deployVars == <<deploy_entry, mons_returncode, proceed_response, deploy_done,
                all_env_lines, env_file, abis_argv, abis_stdin, abis_result,
                deploy_exit, deploy_pc>>

moveCheckVars == <<mc_script, csv_exists, src_exists, csv_readable, moves,
                   validation_results, update_responses, mc_raised,
                   should_proceed, steps_run, mc_exit, mc_pc>>

vars == <<packVars, dedupVars, sliceVars, runVars, morphVars, saveVars, silhouetteVars,
          switchGifVars, deployVars, moveCheckVars>>

\* What the steps of one machine leave alone.
notPackVars  == <<dedupVars, sliceVars, runVars, morphVars, saveVars, silhouetteVars,
    switchGifVars, deployVars, moveCheckVars>>
notDedupVars == <<packVars, sliceVars, runVars, morphVars, saveVars, silhouetteVars,
    switchGifVars, deployVars, moveCheckVars>>
notSliceVars == <<packVars, dedupVars, runVars, morphVars, saveVars, silhouetteVars,
    switchGifVars, deployVars, moveCheckVars>>
notRunVars   == <<packVars, dedupVars, sliceVars, morphVars, saveVars, silhouetteVars,
    switchGifVars, deployVars, moveCheckVars>>
notMorphVars == <<packVars, dedupVars, sliceVars, runVars, saveVars, silhouetteVars,
    switchGifVars, deployVars, moveCheckVars>>
notSaveVars  == <<packVars, dedupVars, sliceVars, runVars, morphVars, silhouetteVars,
    switchGifVars, deployVars, moveCheckVars>>
notSilhouetteVars == <<packVars, dedupVars, sliceVars, runVars, morphVars, saveVars,
    switchGifVars, deployVars, moveCheckVars>>
notSwitchGifVars == <<packVars, dedupVars, sliceVars, runVars, morphVars, saveVars,
    silhouetteVars, deployVars, moveCheckVars>>
notDeployVars == <<packVars, dedupVars, sliceVars, runVars, morphVars, saveVars,
    silhouetteVars, switchGifVars, moveCheckVars>>
notMoveCheckVars == <<packVars, dedupVars, sliceVars, runVars, morphVars, saveVars,
    silhouetteVars, switchGifVars, deployVars>>

\* ------------------------------------------------------------------------
\* Bounds of the model
\* ------------------------------------------------------------------------

\* Largest number of frames handed to build_spritesheet.
MaxFrames == 17

\* Largest number of frames of one gachachacha variant.
MaxVariantFrames == 2

\* Frames of the deduplicator are raw pixel contents 0..MaxPixel.
MaxPixel == 1

\* A tiled PNG is up to MaxTiles frames wide and MaxTiles frames high.
MaxTiles == 3

\* Pixels a PNG that is no multiple of a frame size is too wide or too high by
\* (the spec's 290 x 96 image: 3 * 96 + 2).
Slack == 2

\* Largest number of source images in the target directory of a run.
MaxFiles == 2

\* Largest number of entries of the metadata document a run finds.
MaxDocEntries == 1

\* Largest number of frames of a GIF.
MaxGifFrames == 2

\* Largest number of opaque pixels of a silhouette handed to the morph: one
\* more than the 59 pixels of the diamond.
MaxStartPixels == 60

\* Largest number of frames of a morph.
MaxMorphFrames == 8

\* ------------------------------------------------------------------------
\* Program constants
\* ------------------------------------------------------------------------

DEFAULT_FRAME_SIZE == 96

\* The output frame sizes the pipeline packs: the default square frame and the
\* SPECIAL_FRAME_SIZES after FRAME_CROP (106x106, 128x128 cropped to 106x106,
\* 360x180).
FrameSizes == {<<DEFAULT_FRAME_SIZE, DEFAULT_FRAME_SIZE>>, <<106, 106>>, <<360, 180>>}

GACHACHACHA_VARIANTS == <<"gachachacha_bunnies", "gachachacha_carrots", "gachachacha_skulls">>

\* ------------------------------------------------------------------------
\* Idle values of the machines a specification does not run
\* ------------------------------------------------------------------------

NoMap == [h \in {} |-> 0]

DedupIdle ==
    /\ variant_names = <<>>
    /\ variant_frames = NoMap
    /\ frame_count = 0
    /\ unique_frames = <<>>
    /\ frame_hash_to_index = NoMap
    /\ variant_indices = NoMap
    /\ frame_idx = 0
    /\ dedup_pc = "idle"

SliceIdle ==
    /\ png = [name |-> "", size |-> <<0, 0>>]
    /\ result = <<>>
    /\ frames = <<>>
    /\ slice_pc = "idle"

NoDoc == [kind |-> "absent", entries |-> NoMap]

\* No run came before.
NoRun == [ran |-> FALSE]

RunIdle ==
    /\ script = ""
    /\ earlier_run = NoRun
    /\ target_dir = ""
    /\ files = NoMap
    /\ munch_assets_dir = FALSE
    /\ json_file = NoDoc
    /\ at_start = [files |-> NoMap, json_file |-> NoDoc]
    /\ png_files = <<>>
    /\ gif_files = <<>>
    /\ existing_metadata = NoDoc
    /\ metadata = NoMap
    /\ written = {}
    /\ atlases = NoMap
    /\ exit_status = -1
    /\ raised = ""
    /\ run_pc = "idle"

\* createAddressAndABIs.py has not been started.
NoAbisResult == [returncode |-> -1]

DeployIdle ==
    /\ deploy_entry = ""
    /\ mons_returncode = -1
    /\ proceed_response = ""
    /\ deploy_done = 0
    /\ all_env_lines = <<>>
    /\ env_file = NoMap
    /\ abis_argv = <<>>
    /\ abis_stdin = <<>>
    /\ abis_result = NoAbisResult
    /\ deploy_exit = -1
    /\ deploy_pc = "idle"

MoveCheckIdle ==
    /\ mc_script = ""
    /\ csv_exists = FALSE
    /\ src_exists = FALSE
    /\ csv_readable = FALSE
    /\ moves = <<>>
    /\ validation_results = <<>>
    /\ update_responses = <<>>
    /\ mc_raised = ""
    /\ should_proceed = "unset"
    /\ steps_run = <<>>
    /\ mc_exit = -1
    /\ mc_pc = "idle"

SwitchGifIdle ==
    /\ input_folder = <<>>
    /\ gif_idx = 0
    /\ output_folder = NoMap
    /\ switch_pc = "idle"

SilhouetteIdle ==
    /\ silhouette_of = ""
    /\ original_frame = <<>>
    /\ white_frame = <<>>
    /\ white_again = <<>>

SaveIdle ==
    /\ save_script = ""
    /\ save_plan = <<>>
    /\ save_idx = 0
    /\ saved = NoMap
    /\ tool_outcome = ""
    /\ json_saved = FALSE
    /\ save_pc = "idle"

MorphIdle ==
    /\ white_pixels = <<>>
    /\ is_back = FALSE
    /\ num_frames = 0
    /\ diamond_pixels = <<>>
    /\ pixel_data = <<>>
    /\ morph_frames = <<>>
    /\ morph_pc = "idle"

PackIdle ==
    /\ n_frames = 0
    /\ frame_size = <<0, 0>>
    /\ cols = 0
    /\ rows = 0
    /\ sheet = [size |-> <<0, 0>>, pasted |-> {}]
    /\ positions = <<>>
    /\ pack_pc = "idle"

\* ------------------------------------------------------------------------
\* build_spritesheet
\* ------------------------------------------------------------------------

\* math.ceil(math.sqrt(n)): the least c with c*c >= n.
CeilSqrt(n) == CHOOSE c \in 0..n : c * c >= n /\ \A d \in 0..(c - 1) : d * d < n

\* rows computed with floor division instead of math.ceil.
GridRowsFloor(n, c) == n \div c

\* math.ceil(len(frames) / cols), cols > 0.
GridRows(n, c) == (n + c - 1) \div c

\* cols = math.ceil(math.sqrt(len(frames)))
GridCols(n) == CeilSqrt(n)

\* x, y = (i % cols) * frame_w, (i // cols) * frame_h      (i is 0-based)
Place(i, c, size) == <<(i % c) * size[1], (i \div c) * size[2]>>

\* The whole function: the canvas size and the placements of n frames.
build_spritesheet(n, size) ==
    LET c == GridCols(n)
        r == GridRows(n, c)
    IN  [size      |-> <<c * size[1], r * size[2]>>,
         positions |-> [k \in 1..n |-> Place(k - 1, c, size)]]

InitPack ==
    /\ DedupIdle /\ SliceIdle /\ RunIdle /\ MorphIdle /\ SaveIdle /\ SilhouetteIdle
    /\ SwitchGifIdle
    /\ DeployIdle /\ MoveCheckIdle
    /\ n_frames \in 0..MaxFrames
    /\ frame_size \in FrameSizes
    /\ cols = 0
    /\ rows = 0
    /\ sheet = [size |-> <<0, 0>>, pasted |-> {}]
    /\ positions = <<>>
    /\ pack_pc = "start"

\* Lines 175-179: the grid and the empty canvas.
PackGrid ==
    /\ pack_pc = "start"
    /\ n_frames > 0
    /\ cols' = GridCols(n_frames)
    /\ rows' = GridRows(n_frames, GridCols(n_frames))
    /\ sheet' = [size   |-> <<GridCols(n_frames) * frame_size[1],
                              GridRows(n_frames, GridCols(n_frames)) * frame_size[2]>>,
                 pasted |-> {}]
    /\ positions' = <<>>
    /\ pack_pc' = "loop"
    /\ UNCHANGED <<n_frames, frame_size>>
    /\ UNCHANGED notPackVars

\* Line 177 with no frame: cols = 0 and len(frames) / cols raises.
PackEmpty ==
    /\ pack_pc = "start"
    /\ n_frames = 0
    /\ cols' = 0
    /\ pack_pc' = "ZeroDivisionError"
    /\ UNCHANGED <<n_frames, frame_size, rows, sheet, positions>>
    /\ UNCHANGED notPackVars

\* Lines 180-183: one iteration of the loop, frame i = len(positions).
PackPaste ==
    /\ pack_pc = "loop"
    /\ Len(positions) < n_frames
    /\ LET xy == Place(Len(positions), cols, frame_size)
       IN  /\ sheet' = [sheet EXCEPT !.pasted = @ \cup {xy}]
           /\ positions' = Append(positions, xy)
    /\ UNCHANGED <<n_frames, frame_size, cols, rows, pack_pc>>
    /\ UNCHANGED notPackVars

\* Line 184: return sheet, positions.
PackReturn ==
    /\ pack_pc = "loop"
    /\ Len(positions) = n_frames
    /\ pack_pc' = "done"
    /\ UNCHANGED <<n_frames, frame_size, cols, rows, sheet, positions>>
    /\ UNCHANGED notPackVars

NextPack ==
    \/ PackGrid
    \/ PackEmpty
    \/ PackPaste
    \/ PackReturn

SpecPack == InitPack /\ [][NextPack]_vars

\* ------------------------------------------------------------------------
\* Claims about build_spritesheet
\* ------------------------------------------------------------------------

\* The frame rectangle at xy lies inside a canvas of the given size.
RectInside(xy, size, canvas) ==
    /\ xy[1] >= 0 /\ xy[2] >= 0
    /\ xy[1] + size[1] <= canvas[1]
    /\ xy[2] + size[2] <= canvas[2]

\* Two frame rectangles of one size share a pixel.
RectsOverlap(a, b, size) ==
    /\ a[1] < b[1] + size[1] /\ b[1] < a[1] + size[1]
    /\ a[2] < b[2] + size[2] /\ b[2] < a[2] + size[2]

\* c = ceil(sqrt(n)), stated without the model's operator.
IsCeilSqrt(c, n) == c >= 0 /\ c * c >= n /\ (c = 0 \/ (c - 1) * (c - 1) < n)

\* r = ceil(n / c), stated without the model's operator.
IsCeilDiv(r, n, c) == r * c >= n /\ (r - 1) * c < n

\* C1: for n >= 1 frames of one size (w,h), build_spritesheet returns n
\* placements in input order, frame i at ((i mod cols)*w, (i div cols)*h) with
\* cols = ceil(sqrt(n)) and rows = ceil(n/cols); the placements are pairwise
\* distinct multiples of (w,h), every frame rectangle lies inside the canvas
\* of exactly cols*w by rows*h, and no two frames overlap.
C1_PackingGrid ==
    (pack_pc = "done" /\ n_frames >= 1) =>
        /\ Len(positions) = n_frames
        /\ IsCeilSqrt(cols, n_frames)
        /\ IsCeilDiv(rows, n_frames, cols)
        /\ sheet.size = <<cols * frame_size[1], rows * frame_size[2]>>
        /\ \A i \in 0..(n_frames - 1) :
              /\ positions[i + 1] = <<(i % cols) * frame_size[1],
                                      (i \div cols) * frame_size[2]>>
              /\ positions[i + 1][1] % frame_size[1] = 0
              /\ positions[i + 1][2] % frame_size[2] = 0
              /\ RectInside(positions[i + 1], frame_size, sheet.size)
        /\ \A i, j \in 1..n_frames :
              i # j => /\ positions[i] # positions[j]
                       /\ ~RectsOverlap(positions[i], positions[j], frame_size)
        /\ sheet.pasted = {positions[i] : i \in 1..n_frames}

\* A packed sheet whose last row is not full (n = 7 on a 3 x 3 grid).
C1_Witness ==
    /\ pack_pc = "done"
    /\ n_frames = 7
    /\ cols = 3 /\ rows = 3
    /\ frame_size = <<360, 180>>
    /\ positions[7] = <<0, 360>>

\* ------------------------------------------------------------------------
\* process_gachachacha_variants
\* ------------------------------------------------------------------------

\* A frame of the deduplicator: its raw pixel content (frame.tobytes()).
Frames == 0..MaxPixel

\* hashlib.md5(frame.tobytes()).hexdigest(): a digest that is a function of the
\* raw bytes alone; over the model's contents md5 has no collision.
frame_hash(frame) == <<"md5", frame>>

\* The hash test that never finds the hash.
KnownNever(h, map) == FALSE

\* h in frame_hash_to_index   (the negation of lines 147 and 157)
Known(h, map) == h \in DOMAIN map

\* The next pool index taken one too high.
PoolIndexOffByOne(pool) == Len(pool) + 1

\* len(unique_frames), the index given to a new pool entry (lines 148, 158)
PoolIndex(pool) == Len(pool)

\* Lines 147-149 and 157-159 on st = [unique_frames, frame_hash_to_index,
\* variant_indices]: a hash not seen before gets the next pool index and its
\* frame joins the pool.
Register(st, h, frame) ==
    IF Known(h, st.frame_hash_to_index)
    THEN st
    ELSE [st EXCEPT
            !.frame_hash_to_index =
                [x \in DOMAIN @ \cup {h} |->
                    IF x = h THEN PoolIndex(st.unique_frames) ELSE @[x]],
            !.unique_frames = Append(@, frame)]

\* An index appended only when the variant's list does not hold it yet.
AppendIndexOnce(indices, name, idx) ==
    IF \E k \in 1..Len(indices[name]) : indices[name][k] = idx
    THEN indices
    ELSE [indices EXCEPT ![name] = Append(@, idx)]

\* variant_indices[name].append(idx)   (lines 152, 160)
AppendIndex(indices, name, idx) == [indices EXCEPT ![name] = Append(@, idx)]

\* Lines 146-152: the shared frame is registered once (the first variant's
\* frame) and every variant gets its index.
RECURSIVE AppendToAll(_, _, _, _)
AppendToAll(indices, names, k, idx) ==
    IF k > Len(names)
    THEN indices
    ELSE AppendToAll(AppendIndex(indices, names[k], idx), names, k + 1, idx)

SharedFrame(st, names, frames_at_pos) ==
    LET h   == frame_hash(frames_at_pos[1])
        reg == Register(st, h, frames_at_pos[1])
        idx == reg.frame_hash_to_index[h]
    IN  [reg EXCEPT !.variant_indices = AppendToAll(@, names, 1, idx)]

\* Lines 155-160: the variants in order, each registering its own frame.
RECURSIVE DifferentFrames(_, _, _, _)
DifferentFrames(st, names, frames_at_pos, k) ==
    IF k > Len(names)
    THEN st
    ELSE LET h   == frame_hash(frames_at_pos[k])
             reg == Register(st, h, frames_at_pos[k])
         IN  DifferentFrames(
                [reg EXCEPT !.variant_indices =
                    AppendIndex(@, names[k], reg.frame_hash_to_index[h])],
                names, frames_at_pos, k + 1)

\* The test that takes every position for shared.
all_same_always(frames_at_pos) == TRUE

\* Line 142: all variants have the same hash at this position.
all_same(frames_at_pos) ==
    Cardinality({frame_hash(frames_at_pos[k]) : k \in 1..Len(frames_at_pos)}) = 1

\* The sorted sub-list of GACHACHACHA_VARIANTS whose files are present.
PresentVariants(present) ==
    SelectSeq(GACHACHACHA_VARIANTS, LAMBDA v : v \in present)

FrameLists == UNION {[1..l -> Frames] : l \in 1..MaxVariantFrames}

\* The variant files found in the directory, each a divisible PNG and so of
\* at least one frame.
InitDedup ==
    /\ PackIdle /\ SliceIdle /\ RunIdle /\ MorphIdle /\ SaveIdle /\ SilhouetteIdle
    /\ SwitchGifIdle
    /\ DeployIdle /\ MoveCheckIdle
    /\ \E present \in (SUBSET {GACHACHACHA_VARIANTS[k] : k \in 1..Len(GACHACHACHA_VARIANTS)}) \ {{}} :
          /\ variant_names = PresentVariants(present)
          /\ variant_frames \in [present -> FrameLists]
    /\ frame_count = 0
    /\ unique_frames = <<>>
    /\ frame_hash_to_index = NoMap
    /\ variant_indices = NoMap
    /\ frame_idx = 0
    /\ dedup_pc = "start"

\* Lines 127-134.
DedupStart ==
    /\ dedup_pc = "start"
    /\ frame_count' = Len(variant_frames[variant_names[1]])
    /\ unique_frames' = <<>>
    /\ frame_hash_to_index' = NoMap
    /\ variant_indices' = [name \in DOMAIN variant_frames |-> <<>>]
    /\ frame_idx' = 0
    /\ dedup_pc' = "loop"
    /\ UNCHANGED <<variant_names, variant_frames>>
    /\ UNCHANGED notDedupVars

\* Line 138 finds a frame of every variant at index idx.
HasFrameAt(names, vf, idx) ==
    \A k \in 1..Len(names) : idx + 1 <= Len(vf[names[k]])

\* frames_at_pos, line 138.
FramesAtPos(names, vf, idx) ==
    [k \in 1..Len(names) |-> vf[names[k]][idx + 1]]

\* One iteration of the loop of line 136 on st.
DedupStep(st, names, vf, idx) ==
    IF all_same(FramesAtPos(names, vf, idx))
    THEN SharedFrame(st, names, FramesAtPos(names, vf, idx))
    ELSE DifferentFrames(st, names, FramesAtPos(names, vf, idx), 1)

\* The loop of lines 136-160 from index idx on: the state it ends in, with
\* raised set when line 138 finds no frame.
RECURSIVE DedupLoop(_, _, _, _, _)
DedupLoop(st, names, vf, idx, count) ==
    IF idx = count THEN st
    ELSE IF ~HasFrameAt(names, vf, idx) THEN [st EXCEPT !.raised = "IndexError"]
    ELSE DedupLoop(DedupStep(st, names, vf, idx), names, vf, idx + 1, count)

\* The whole function on the variants' frame lists (lines 127-165).
process_gachachacha_variants(names, vf) ==
    DedupLoop([unique_frames       |-> <<>>,
               frame_hash_to_index |-> NoMap,
               variant_indices     |-> [name \in DOMAIN vf |-> <<>>],
               raised              |-> ""],
              names, vf, 0, Len(vf[names[1]]))

DedupState ==
    [unique_frames       |-> unique_frames,
     frame_hash_to_index |-> frame_hash_to_index,
     variant_indices     |-> variant_indices,
     raised              |-> ""]

DedupSet(st) ==
    /\ unique_frames' = st.unique_frames
    /\ frame_hash_to_index' = st.frame_hash_to_index
    /\ variant_indices' = st.variant_indices

\* One iteration of the loop of line 136, shared branch (lines 144-152).
DedupShared ==
    /\ dedup_pc = "loop"
    /\ frame_idx < frame_count
    /\ HasFrameAt(variant_names, variant_frames, frame_idx)
    /\ all_same(FramesAtPos(variant_names, variant_frames, frame_idx))
    /\ DedupSet(DedupStep(DedupState, variant_names, variant_frames, frame_idx))
    /\ frame_idx' = frame_idx + 1
    /\ UNCHANGED <<variant_names, variant_frames, frame_count, dedup_pc>>
    /\ UNCHANGED notDedupVars

\* One iteration of the loop of line 136, differing branch (lines 153-160).
DedupDifferent ==
    /\ dedup_pc = "loop"
    /\ frame_idx < frame_count
    /\ HasFrameAt(variant_names, variant_frames, frame_idx)
    /\ ~all_same(FramesAtPos(variant_names, variant_frames, frame_idx))
    /\ DedupSet(DedupStep(DedupState, variant_names, variant_frames, frame_idx))
    /\ frame_idx' = frame_idx + 1
    /\ UNCHANGED <<variant_names, variant_frames, frame_count, dedup_pc>>
    /\ UNCHANGED notDedupVars

\* Line 138 when a later variant has fewer frames than the first:
\* variant_frames[name][frame_idx] raises IndexError and nothing is returned.
DedupIndexError ==
    /\ dedup_pc = "loop"
    /\ frame_idx < frame_count
    /\ ~HasFrameAt(variant_names, variant_frames, frame_idx)
    /\ dedup_pc' = "IndexError"
    /\ UNCHANGED <<variant_names, variant_frames, frame_count, unique_frames,
                   frame_hash_to_index, variant_indices, frame_idx>>
    /\ UNCHANGED notDedupVars

\* Line 165: return unique_frames, variant_indices.
DedupReturn ==
    /\ dedup_pc = "loop"
    /\ frame_idx = frame_count
    /\ dedup_pc' = "done"
    /\ UNCHANGED <<variant_names, variant_frames, frame_count, unique_frames,
                   frame_hash_to_index, variant_indices, frame_idx>>
    /\ UNCHANGED notDedupVars

NextDedup ==
    \/ DedupStart
    \/ DedupShared
    \/ DedupDifferent
    \/ DedupIndexError
    \/ DedupReturn

SpecDedup == InitDedup /\ [][NextDedup]_vars

\* ------------------------------------------------------------------------
\* Claims about process_gachachacha_variants
\* ------------------------------------------------------------------------

VariantSet == DOMAIN variant_frames

\* Every variant has the same frame at every index.
IdenticalVariants == \A u, v \in VariantSet : variant_frames[u] = variant_frames[v]

\* No content occurs at two indices of one variant.
DistinctWithin(v) ==
    \A i, j \in 1..Len(variant_frames[v]) :
        i # j => variant_frames[v][i] # variant_frames[v][j]

EqualFrameCounts ==
    \A u, v \in VariantSet : Len(variant_frames[u]) = Len(variant_frames[v])

\* [0, 1, ..., count-1]
Iota(count) == [i \in 1..count |-> i - 1]

\* C2 as stated: k identical variants, whatever their frames' contents, give a
\* pool as large as one variant's frame count and index lists [0..count-1].
C2_AsStated ==
    (dedup_pc = "done" /\ IdenticalVariants) =>
        /\ Len(unique_frames) = frame_count
        /\ \A v \in VariantSet : variant_indices[v] = Iota(frame_count)

\* C2 amended: k identical variants whose frames at different indices differ in
\* content give a pool as large as one variant's frame count, holding the
\* frames in order, and every index list is [0, 1, ..., count-1].
C2_IdenticalVariants ==
    (dedup_pc = "done" /\ IdenticalVariants /\ \A v \in VariantSet : DistinctWithin(v)) =>
        /\ Len(unique_frames) = frame_count
        /\ \A v \in VariantSet :
              /\ variant_indices[v] = Iota(frame_count)
              /\ unique_frames = variant_frames[v]

\* Three identical variants of two different frames, deduplicated.
C2_Witness ==
    /\ dedup_pc = "done"
    /\ Len(variant_names) = 3
    /\ IdenticalVariants
    /\ frame_count = 2
    /\ \A v \in VariantSet : DistinctWithin(v)
    /\ Len(unique_frames) = 2

\* C3 as stated: whatever the variants' frame counts, each index list is as
\* long as that variant's frame list.
C3_AsStated ==
    dedup_pc = "done" =>
        \A v \in VariantSet : Len(variant_indices[v]) = Len(variant_frames[v])

\* C3 amended: when all variants have the same frame count the function
\* returns, and each variant's index list has exactly as many entries as the
\* variant has frames; every entry is an index of the pool.
C3_Conservation ==
    EqualFrameCounts =>
        /\ dedup_pc # "IndexError"
        /\ dedup_pc = "done" =>
              \A v \in VariantSet :
                  /\ Len(variant_indices[v]) = Len(variant_frames[v])
                  /\ \A i \in 1..Len(variant_indices[v]) :
                        variant_indices[v][i] \in 0..(Len(unique_frames) - 1)

\* Two variants of two frames each, one of them repeating a frame, the other
\* not: both index lists have two entries.
C3_Witness ==
    /\ dedup_pc = "done"
    /\ Len(variant_names) >= 2
    /\ EqualFrameCounts
    /\ frame_count = 2
    /\ \E v \in VariantSet : ~DistinctWithin(v)
    /\ \E v \in VariantSet : DistinctWithin(v)
    /\ \A v \in VariantSet : Len(variant_indices[v]) = 2

\* C4: in the result, two input frames with identical raw content, of any
\* variants and at any indices, have the same pool index, and the pool holds
\* no two entries with identical content.
C4_SameContentSameIndex ==
    dedup_pc = "done" =>
        /\ \A u, v \in VariantSet :
              \A i \in 1..Len(variant_indices[u]) : \A j \in 1..Len(variant_indices[v]) :
                  variant_frames[u][i] = variant_frames[v][j]
                      => variant_indices[u][i] = variant_indices[v][j]
        /\ \A a, b \in 1..Len(unique_frames) :
              a # b => unique_frames[a] # unique_frames[b]

\* The same content at index 0 of one variant and at index 1 of another, at
\* positions where the variants differ, resolved to one pool entry.
C4_Witness ==
    /\ dedup_pc = "done"
    /\ \E u, v \in VariantSet :
          /\ u # v
          /\ Len(variant_indices[u]) = 2 /\ Len(variant_indices[v]) = 2
          /\ variant_frames[u][1] = variant_frames[v][2]
          /\ variant_frames[u][1] # variant_frames[v][1]
          /\ variant_frames[u][2] # variant_frames[v][2]
          /\ variant_indices[u][1] = variant_indices[v][2]

\* ------------------------------------------------------------------------
\* find_valid_attack_pngs and extract_frames_from_spritesheet
\* ------------------------------------------------------------------------

\* SPECIAL_FRAME_SIZES: the source frame (width, height) of the named files.
SPECIAL_FRAME_SIZES ==
    [stat_boost_player  |-> <<106, 106>>,
     stat_debuff_player |-> <<128, 128>>,
     chain_expansion    |-> <<360, 180>>]

\* FRAME_CROP: (top, right, bottom, left), applied before the flip.
FRAME_CROP == [stat_debuff_player |-> <<22, 11, 0, 11>>]

VERTICAL_FLIP_FILES == {"stat_boost_enemy", "stat_debuff_player"}

\* The output files that exclude nothing.
NoOutputFiles == {}

\* OUTPUT_FILES, by stem.
OUTPUT_FILES == {"attack_spritesheet", "non_standard_spritesheet"}

\* The stems of the two atlases create_attack_spritesheets saves (lines 355,
\* 402), and the path of each.
OUTPUT_FILES_stems == {"attack_spritesheet", "non_standard_spritesheet"}

OutputPath(stem) ==
    IF stem = "attack_spritesheet" THEN "attack_spritesheet.png"
    ELSE "non_standard_spritesheet.png"

\* Lines 50-62: the source frame size of a file.
SourceSize(name) ==
    IF name \in DOMAIN SPECIAL_FRAME_SIZES
    THEN SPECIAL_FRAME_SIZES[name]
    ELSE <<DEFAULT_FRAME_SIZE, DEFAULT_FRAME_SIZE>>

\* Lines 50-62: the frame size after cropping.
OutputSize(name) ==
    IF name \in DOMAIN SPECIAL_FRAME_SIZES /\ name \in DOMAIN FRAME_CROP
    THEN LET src  == SPECIAL_FRAME_SIZES[name]
             crop == FRAME_CROP[name]
         IN  <<src[1] - crop[4] - crop[2], src[2] - crop[1] - crop[3]>>
    ELSE SourceSize(name)

\* The size test that looks at the width alone.
DivisibleWidthOnly(size, source) == size[1] % source[1] = 0

\* Line 66: w % source_w == 0 and h % source_h == 0
Divisible(size, source) == size[1] % source[1] = 0 /\ size[2] % source[2] = 0

\* Lines 46-71 for one file: the tuple appended to the result, or nothing.
FindOne(name, size) ==
    IF name \in OUTPUT_FILES \/ ~Divisible(size, SourceSize(name))
    THEN <<>>
    ELSE <<[name   |-> name,
            cols   |-> size[1] \div SourceSize(name)[1],
            rows   |-> size[2] \div SourceSize(name)[2],
            source |-> SourceSize(name),
            output |-> OutputSize(name)]>>

\* The cell visited after the cells of whole rows, column by column.
CellColumnMajor(k, c, r) == [col |-> k \div r, row |-> k % r]

\* Lines 92-93: the k-th cell (0-based) of the nested loops over rows and cols.
Cell(k, c, r) == [col |-> k % c, row |-> k \div c]

\* Lines 94-102: the frame cut from cell (col, row): the box cropped from the
\* image, (left, top, right, bottom), and whether it is flipped.
ExtractFrame(cell, fsize, crop, vertical_flip) ==
    LET x == cell.col * fsize[1]
        y == cell.row * fsize[2]
    IN  [cell    |-> <<x, y>>,
         box     |-> <<x + crop[4], y + crop[1],
                       x + fsize[1] - crop[2], y + fsize[2] - crop[3]>>,
         flipped |-> vertical_flip]

\* crop = FRAME_CROP.get(name); no crop is a crop by nothing.
CropOf(name) == IF name \in DOMAIN FRAME_CROP THEN FRAME_CROP[name] ELSE <<0, 0, 0, 0>>

\* The whole function: the frames of a cols x rows grid, row-major.
extract_frames_from_spritesheet(c, r, fsize, crop, vertical_flip) ==
    [k \in 1..(c * r) |-> ExtractFrame(Cell(k - 1, c, r), fsize, crop, vertical_flip)]

\* The stems of the PNG files the model puts into a directory, in the order of
\* sorted(Path(directory).glob("*.png")).
PngNames ==
    <<"attack_spritesheet", "bite", "chain_expansion", "gachachacha_bunnies",
      "stat_boost_player", "stat_debuff_player">>

\* Image widths and heights: up to MaxTiles frames of a frame width (height)
\* of the pipeline, exactly or Slack pixels more.
ImageWidths ==
    {t * f + d : t \in 1..MaxTiles, f \in {DEFAULT_FRAME_SIZE, 106, 128, 360}, d \in {0, Slack}}

ImageHeights ==
    {t * f + d : t \in 1..MaxTiles, f \in {DEFAULT_FRAME_SIZE, 106, 128, 180}, d \in {0, Slack}}

InitSlice ==
    /\ PackIdle /\ DedupIdle /\ RunIdle /\ MorphIdle /\ SaveIdle /\ SilhouetteIdle
    /\ SwitchGifIdle
    /\ DeployIdle /\ MoveCheckIdle
    /\ png \in [name : {PngNames[k] : k \in 1..Len(PngNames)},
                size : ImageWidths \X ImageHeights]
    /\ result = <<>>
    /\ frames = <<>>
    /\ slice_pc = "find"

\* find_valid_attack_pngs on the directory holding the file (lines 44-74).
SliceFind ==
    /\ slice_pc = "find"
    /\ result' = FindOne(png.name, png.size)
    /\ slice_pc' = IF FindOne(png.name, png.size) = <<>> THEN "done" ELSE "extract"
    /\ UNCHANGED <<png, frames>>
    /\ UNCHANGED notSliceVars

\* One pass of the loops of lines 92-102, as process_size_group calls the
\* function (line 259): with the file's crop and flip.
SliceExtract ==
    /\ slice_pc = "extract"
    /\ Len(frames) < result[1].cols * result[1].rows
    /\ frames' = Append(frames,
                        ExtractFrame(Cell(Len(frames), result[1].cols, result[1].rows),
                                     result[1].source, CropOf(png.name),
                                     png.name \in VERTICAL_FLIP_FILES))
    /\ UNCHANGED <<png, result, slice_pc>>
    /\ UNCHANGED notSliceVars

\* Line 103: return frames.
SliceReturn ==
    /\ slice_pc = "extract"
    /\ Len(frames) = result[1].cols * result[1].rows
    /\ slice_pc' = "done"
    /\ UNCHANGED <<png, result, frames>>
    /\ UNCHANGED notSliceVars

NextSlice ==
    \/ SliceFind
    \/ SliceExtract
    \/ SliceReturn

SpecSlice == InitSlice /\ [][NextSlice]_vars

\* ------------------------------------------------------------------------
\* Claims about find_valid_attack_pngs and extract_frames_from_spritesheet
\* ------------------------------------------------------------------------

\* The frame size declared for the file, read off the tables.
DeclaredSize(name) ==
    CASE name = "stat_boost_player"  -> <<106, 106>>
      [] name = "stat_debuff_player" -> <<128, 128>>
      [] name = "chain_expansion"    -> <<360, 180>>
      [] OTHER                       -> <<96, 96>>

\* C9: a tiled source PNG of size (W,H) with declared frame size (fw,fh) is
\* accepted iff W mod fw = 0 and H mod fh = 0; accepted, it yields exactly
\* (W/fw)*(H/fh) frames in row-major order, the k-th cut from the cell at
\* (col*fw, row*fh) with col = k mod (W/fw), row = k div (W/fw); rejected, it
\* yields no frame at all.
C9_TiledSlicing ==
    (slice_pc = "done" /\ png.name \notin OUTPUT_FILES) =>
        LET fw == DeclaredSize(png.name)[1]
            fh == DeclaredSize(png.name)[2]
            W  == png.size[1]
            H  == png.size[2]
        IN  /\ (result # <<>>) <=> (W % fw = 0 /\ H % fh = 0)
            /\ result = <<>> => frames = <<>>
            /\ result # <<>> =>
                  /\ Len(frames) = (W \div fw) * (H \div fh)
                  /\ \A k \in 0..(Len(frames) - 1) :
                        LET col == k % (W \div fw)
                            row == k \div (W \div fw)
                        IN  /\ frames[k + 1].cell = <<col * fw, row * fh>>
                            /\ frames[k + 1].box[1] >= col * fw
                            /\ frames[k + 1].box[2] >= row * fh
                            /\ frames[k + 1].box[3] <= (col + 1) * fw
                            /\ frames[k + 1].box[4] <= (row + 1) * fh
                            /\ frames[k + 1].box[3] <= W
                            /\ frames[k + 1].box[4] <= H

\* The spec's scenario, 288 x 96 at frame size 96: three frames at (0,0),
\* (96,0), (192,0).
C9_Witness ==
    /\ slice_pc = "done"
    /\ png = [name |-> "bite", size |-> <<288, 96>>]
    /\ Len(frames) = 3
    /\ frames[1].cell = <<0, 0>> /\ frames[2].cell = <<96, 0>> /\ frames[3].cell = <<192, 0>>

\* The spec's rejected image, 290 x 96: no frame.
C9_WitnessRejected ==
    /\ slice_pc = "done"
    /\ png = [name |-> "bite", size |-> <<290, 96>>]
    /\ result = <<>> /\ frames = <<>>

\* ------------------------------------------------------------------------
\* One run of a script over a target directory: what the directory holds
\* ------------------------------------------------------------------------

\* The stems of the PNG files a run's directory may hold, in the order of
\* sorted(Path(directory).glob("*.png")); attack_spritesheet.png is the atlas
\* an earlier run left there.
RunPngNames ==
    <<"attack_spritesheet", "bite", "chain_expansion", "gachachacha_bunnies",
      "gachachacha_carrots", "stat_boost_player">>

\* The names of the GIF files a run's directory may hold, in sorted order.
RunGifNames == <<"mon_back.gif", "mon_front.gif">>

SetOf(seq) == {seq[k] : k \in 1..Len(seq)}

\* Source images are one frame high and this many frames wide.
TileColumns == {1, 2}

\* The contents of the cells of a PNG of c frames: the frames of a gachachacha
\* variant are all alike or all different, the content of other files plays
\* no part.
CellContents(name, c) ==
    IF name \in SetOf(GACHACHACHA_VARIANTS)
    THEN {[k \in 1..c |-> 0], [k \in 1..c |-> k - 1]}
    ELSE {[k \in 1..c |-> 0]}

\* The PNG files a directory may hold under a name: tiled, Slack pixels too
\* wide, not an image Image.open can read, or one frame whose header opens
\* and whose pixel data cannot be decoded (img.convert raises).
PngImages(name) ==
    UNION {{[size |-> <<c * SourceSize(name)[1], SourceSize(name)[2]>>,
             readable |-> TRUE, decodes |-> TRUE, cells |-> cs]
            : cs \in CellContents(name, c)}
           : c \in TileColumns}
    \cup {[size |-> <<SourceSize(name)[1] + Slack, SourceSize(name)[2]>>,
           readable |-> TRUE, decodes |-> TRUE, cells |-> <<>>],
          [size |-> <<0, 0>>, readable |-> FALSE, decodes |-> FALSE, cells |-> <<>>],
          [size |-> SourceSize(name), readable |-> TRUE, decodes |-> FALSE,
           cells |-> <<>>]}

\* The GIF files a directory may hold: 96x96 or not, with or without a
\* duration in img.info, unreadable, or 96x96 with frame data that can be
\* decoded for the first decoded frames only (seek or convert raises then).
GifImages ==
    {[size |-> <<sz, sz>>, readable |-> TRUE, n_frames |-> n, decoded |-> n,
      duration |-> d] :
        sz \in {96, 64}, n \in 1..MaxGifFrames, d \in {<<>>, <<40>>}}
    \cup {[size |-> <<0, 0>>, readable |-> FALSE, n_frames |-> 0, decoded |-> 0,
           duration |-> <<>>]}
    \cup UNION {{[size |-> <<96, 96>>, readable |-> TRUE, n_frames |-> n,
                  decoded |-> k, duration |-> <<>>] : k \in 0..(n - 1)}
                : n \in 1..MaxGifFrames}

\* The directories of at most MaxFiles of the names.
Directories(names, images) ==
    UNION {{f \in [D -> UNION {images[n] : n \in D}] : \A n \in D : f[n] \in images[n]}
           : D \in {D \in SUBSET names : Cardinality(D) <= MaxFiles}}

\* Entries of an attack_spritesheet.json found in the directory: one with a
\* hand-tuned msPerFrame and one without the key.
AttackEntries ==
    {[msPerFrame |-> 50, width |-> 96, height |-> 96, frames |-> <<<<0, 0>>>>],
     [width |-> 96, height |-> 96, frames |-> <<<<0, 0>>>>]}

\* Entries of a spritesheet.json found in the directory, hand-tuned.
MonEntries ==
    {[msPerFrame |-> 50, frames |-> <<<<0, 0>>>>,
      switchOut |-> [msPerFrame |-> 60, frames |-> <<<<0, 0>>>>],
      switchIn  |-> [msPerFrame |-> 60, frames |-> <<<<0, 0>>>>]]}

\* The metadata documents a run may find: none, one json cannot parse, a JSON
\* value that is no object, or an object of at most MaxDocEntries entries.
Docs(names, entries) ==
    {NoDoc,
     [kind |-> "unparseable", entries |-> NoMap],
     [kind |-> "nonobject", entries |-> NoMap]}
    \cup UNION {{[kind |-> "object", entries |-> e] : e \in [D -> entries]}
                : D \in {D \in SUBSET names : Cardinality(D) <= MaxDocEntries}}

\* A name of the previous document that no file of the directory bears.
StaleNames == {"removed"}

\* The state a script starts in: its argument, the directory and the document.
InitRun(name, args, names, images, entries) ==
    /\ PackIdle /\ DedupIdle /\ SliceIdle /\ MorphIdle /\ SaveIdle /\ SilhouetteIdle
    /\ SwitchGifIdle
    /\ DeployIdle /\ MoveCheckIdle
    /\ script = name
    /\ target_dir \in args
    /\ IF target_dir = "present"
       THEN /\ files \in Directories(names, images)
            /\ json_file \in Docs(DOMAIN files \cup StaleNames, entries)
            /\ munch_assets_dir \in BOOLEAN
       ELSE /\ files = NoMap
            /\ json_file = NoDoc
            /\ munch_assets_dir = FALSE
    /\ at_start = [files |-> files, json_file |-> json_file]
    /\ png_files = <<>>
    /\ gif_files = <<>>
    /\ existing_metadata = NoDoc
    /\ metadata = NoMap
    /\ written = {}
    /\ atlases = NoMap
    /\ earlier_run = NoRun
    /\ exit_status = -1
    /\ raised = ""
    /\ run_pc = "start"

\* createAttackSpritesheets.py: without an argument run() takes the default
\* directory, which exists or not like a named one.
InitAttack ==
    InitRun("attack", {"missing", "present"}, SetOf(RunPngNames),
            [n \in SetOf(RunPngNames) |-> PngImages(n)], AttackEntries)

\* createSpritesheets.py
InitMon ==
    InitRun("mon", {"no_arg", "missing", "present"}, SetOf(RunGifNames),
            [n \in SetOf(RunGifNames) |-> GifImages], MonEntries)

\* spritesheet.py
InitLegacy ==
    InitRun("legacy", {"no_arg", "missing", "present"}, SetOf(RunGifNames),
            [n \in SetOf(RunGifNames) |-> GifImages], MonEntries)

\* ------------------------------------------------------------------------
\* One run: finding the sources (run, lines 423-441, and the two mains)
\* ------------------------------------------------------------------------

FRAME_SIZE == 96

\* find_valid_attack_pngs from the k-th name of the sorted listing on: what
\* Image.open cannot read is skipped with a warning (lines 72-73).
RECURSIVE FindPngs(_, _, _)
FindPngs(names, k, dir) ==
    IF k > Len(names) THEN <<>>
    ELSE (IF names[k] \in DOMAIN dir /\ dir[names[k]].readable
          THEN FindOne(names[k], dir[names[k]].size)
          ELSE <<>>)
         \o FindPngs(names, k + 1, dir)

\* The listing of the PNG files with the combined atlas of the other sizes
\* in its sorted place; the directory holds it once a run has written it.
PngListing ==
    SelectSeq(RunPngNames, LAMBDA n : n \in {"attack_spritesheet", "bite",
                                              "chain_expansion", "gachachacha_bunnies",
                                              "gachachacha_carrots"})
    \o <<"non_standard_spritesheet">>
    \o SelectSeq(RunPngNames, LAMBDA n : n = "stat_boost_player")

find_valid_attack_pngs(dir) == FindPngs(PngListing, 1, dir)

\* The size test every image passes.
IsFrameSizedAlways(size) == TRUE

\* img.size == (FRAME_SIZE, FRAME_SIZE)
IsFrameSized(size) == size = <<FRAME_SIZE, FRAME_SIZE>>

\* find_96x96_gifs from the k-th name of the sorted listing on.
RECURSIVE FindGifs(_, _, _)
FindGifs(names, k, dir) ==
    IF k > Len(names) THEN <<>>
    ELSE (IF /\ names[k] \in DOMAIN dir
             /\ dir[names[k]].readable
             /\ IsFrameSized(dir[names[k]].size)
          THEN <<names[k]>>
          ELSE <<>>)
         \o FindGifs(names, k + 1, dir)

find_96x96_gifs(dir) == FindGifs(RunGifNames, 1, dir)

\* The process ends: sys.exit(status), the return of main, or an exception
\* nothing catches.
Exit(status, exception) ==
    /\ exit_status' = status
    /\ raised' = exception
    /\ run_pc' = "exit"

\* len(sys.argv) < 2: the mains of createSpritesheets.py and spritesheet.py
\* print the usage and exit.
RunUsage ==
    /\ run_pc = "start"
    /\ target_dir = "no_arg"
    /\ Exit(1, "")
    /\ UNCHANGED <<script, earlier_run, atlases, target_dir, files, munch_assets_dir, json_file, at_start,
                   png_files, gif_files, existing_metadata, metadata, written>>
    /\ UNCHANGED notRunVars

\* The target is no directory.
RunNoDirectory ==
    /\ run_pc = "start"
    /\ target_dir = "missing"
    /\ Exit(1, "")
    /\ UNCHANGED <<script, earlier_run, atlases, target_dir, files, munch_assets_dir, json_file, at_start,
                   png_files, gif_files, existing_metadata, metadata, written>>
    /\ UNCHANGED notRunVars

\* The script lists its sources.
RunFind ==
    /\ run_pc = "start"
    /\ target_dir = "present"
    /\ png_files' = IF script = "attack" THEN find_valid_attack_pngs(files) ELSE <<>>
    /\ gif_files' = IF script = "attack" THEN <<>> ELSE find_96x96_gifs(files)
    /\ run_pc' = "found"
    /\ UNCHANGED <<script, earlier_run, atlases, target_dir, files, munch_assets_dir, json_file, at_start,
                   existing_metadata, metadata, written, exit_status, raised>>
    /\ UNCHANGED notRunVars

\* if not png_files / if not gif_files: the run ends with status 1.
RunNoSources ==
    /\ run_pc = "found"
    /\ png_files = <<>>
    /\ gif_files = <<>>
    /\ Exit(1, "")
    /\ UNCHANGED <<script, earlier_run, atlases, target_dir, files, munch_assets_dir, json_file, at_start,
                   png_files, gif_files, existing_metadata, metadata, written>>
    /\ UNCHANGED notRunVars

\* ------------------------------------------------------------------------
\* create_attack_spritesheets (lines 313-420)
\* ------------------------------------------------------------------------

\* Lines 317-325: the previous document as the run takes it; a missing file
\* and one json.loads rejects leave the empty dict.
LoadExisting(doc) ==
    IF doc.kind \in {"object", "nonobject"}
    THEN doc
    ELSE [kind |-> "object", entries |-> NoMap]

AttackLoadExisting ==
    /\ run_pc = "found"
    /\ script = "attack"
    /\ png_files # <<>>
    /\ existing_metadata' = LoadExisting(json_file)
    /\ run_pc' = "loaded"
    /\ UNCHANGED <<script, earlier_run, atlases, target_dir, files, munch_assets_dir, json_file, at_start,
                   png_files, gif_files, metadata, written, exit_status, raised>>
    /\ UNCHANGED notRunVars

\* Lines 244-251: the files that are no gachachacha variant, and those that are.
RegularFiles(size_files) ==
    SelectSeq(size_files, LAMBDA t : t.name \notin SetOf(GACHACHACHA_VARIANTS))

GachachachaFiles(size_files) ==
    SelectSeq(size_files, LAMBDA t : t.name \in SetOf(GACHACHACHA_VARIANTS))

\* len(frames) of line 259.
FrameCount(t) ==
    Len(extract_frames_from_spritesheet(t.cols, t.rows, t.source, CropOf(t.name),
                                        t.name \in VERTICAL_FLIP_FILES))

\* len(all_frames) after the first k regular files (lines 265-266).
RECURSIVE FramesBefore(_, _)
FramesBefore(regular, k) ==
    IF k = 0 THEN 0 ELSE FramesBefore(regular, k - 1) + FrameCount(regular[k])

\* all_frames after the first k regular files (line 266): the frames of each
\* file, cell by cell.
RECURSIVE RegularFrames(_, _, _)
RegularFrames(regular, k, dir) ==
    IF k = 0 THEN <<>>
    ELSE RegularFrames(regular, k - 1, dir) \o dir[regular[k].name].cells

\* process_size_group (lines 232-280): the number of frames collected, the
\* size_metadata, and the exception that ended it: the OSError of img.convert
\* (line 91) on a file whose data cannot be decoded, which nothing catches, or
\* that of the deduplicator.
process_size_group(size_files, output_size, dir) ==
    LET regular == RegularFiles(size_files)
        gacha   == GachachachaFiles(size_files)
        names   == [k \in 1..Len(gacha) |-> gacha[k].name]
        dedup   == process_gachachacha_variants(
                       names, [name \in SetOf(names) |-> dir[name].cells])
        gacha_frame_start == FramesBefore(regular, Len(regular))
        regular_metadata ==
            [name \in {regular[k].name : k \in 1..Len(regular)} |->
                LET k == CHOOSE k \in 1..Len(regular) : regular[k].name = name
                IN  [kind |-> "regular", start |-> FramesBefore(regular, k - 1),
                     count |-> FrameCount(regular[k]), indices |-> <<>>,
                     size |-> output_size]]
    IN  IF \E k \in 1..Len(size_files) : ~dir[size_files[k].name].decodes
        THEN [n_frames |-> 0, all_frames |-> <<>>, size_metadata |-> NoMap,
              raised |-> "OSError"]
        ELSE IF gacha = <<>>
        THEN [n_frames |-> gacha_frame_start,
              all_frames |-> RegularFrames(regular, Len(regular), dir),
              size_metadata |-> regular_metadata,
              raised |-> ""]
        ELSE [n_frames |-> gacha_frame_start + Len(dedup.unique_frames),
              all_frames |-> RegularFrames(regular, Len(regular), dir)
                             \o dedup.unique_frames,
              size_metadata |->
                  [name \in SetOf(names) |->
                      [kind |-> "gacha", start |-> gacha_frame_start, count |-> 0,
                       indices |-> dedup.variant_indices[name],
                       size |-> output_size]]
                  @@ regular_metadata,
              raised |-> dedup.raised]

\* The msPerFrame that ignores the previous document.
existing_ms_default(existing, name) == 100

\* Line 291: existing_metadata.get(name, {}).get("msPerFrame", 100)
existing_ms(existing, name) ==
    IF name \in DOMAIN existing.entries /\ "msPerFrame" \in DOMAIN existing.entries[name]
    THEN existing.entries[name].msPerFrame
    ELSE 100

\* The entry that is the previous document's where it has one.
FinalEntryKeepsPrevious(name, data, pos, existing) ==
    IF name \in DOMAIN existing.entries
    THEN existing.entries[name]
    ELSE [msPerFrame |-> 100,
          width      |-> data.size[1],
          height     |-> data.size[2],
          frames     |-> IF data.kind = "regular"
                         THEN [i \in 1..data.count |-> pos[data.start + (i - 1) + 1]]
                         ELSE [i \in 1..Len(data.indices) |->
                                  pos[data.start + data.indices[i] + 1]]]

\* Lines 293-306: the entry of one name.
FinalEntry(name, data, pos, existing) ==
    [msPerFrame |-> existing_ms(existing, name),
     width      |-> data.size[1],
     height     |-> data.size[2],
     frames     |-> IF data.kind = "regular"
                    THEN [i \in 1..data.count |-> pos[data.start + (i - 1) + 1]]
                    ELSE [i \in 1..Len(data.indices) |->
                             pos[data.start + data.indices[i] + 1]]]

\* finalize_metadata (lines 283-310): the entries, or the AttributeError of
\* line 291 when the previous document is a JSON value without get.
finalize_metadata(size_metadata, pos, existing) ==
    IF existing.kind = "nonobject" /\ DOMAIN size_metadata # {}
    THEN [raised |-> "AttributeError", result |-> NoMap]
    ELSE [raised |-> "",
          result |-> [name \in DOMAIN size_metadata |->
                         FinalEntry(name, size_metadata[name], pos, existing)]]

\* Lines 327-345: the files of one output frame size, in the order found.
FilesOfSize(pngs, output_size) ==
    SelectSeq(pngs, LAMBDA t : t.output = output_size)

StandardSize == <<DEFAULT_FRAME_SIZE, DEFAULT_FRAME_SIZE>>

\* sorted(non_standard_sizes.keys()), line 375: tuples sort by width, then
\* by height.
RECURSIVE SortedSizes(_)
SortedSizes(sizes) ==
    IF sizes = {} THEN <<>>
    ELSE LET least == CHOOSE m \in sizes :
                        \A o \in sizes : m[1] < o[1] \/ (m[1] = o[1] /\ m[2] <= o[2])
         IN  <<least>> \o SortedSizes(sizes \ {least})

NonStandardSizes(pngs) ==
    SortedSizes({pngs[k].output : k \in 1..Len(pngs)} \ {StandardSize})

\* save_and_compress_png to the output directory and, where the munch
\* directory exists, to it (lines 355-362, 402-409).
SavedPaths(path, munch_path) ==
    IF munch_assets_dir THEN {path, munch_path} ELSE {path}

\* Lines 177-182: the sheet after the pastes, as the cells it holds: where
\* each frame was pasted, its size and its content.
GridCells(pos, all_frames, size) ==
    [k \in 1..Len(pos) |-> [at |-> pos[k], size |-> size, content |-> all_frames[k]]]

\* Lines 347-365: the standard 96x96 group. The atlas is saved before the
\* metadata is finalized.
AttackStandard ==
    /\ run_pc = "loaded"
    /\ LET standard_files == FilesOfSize(png_files, StandardSize)
           group == process_size_group(standard_files, StandardSize, files)
           final == finalize_metadata(
                        group.size_metadata,
                        build_spritesheet(group.n_frames, StandardSize).positions,
                        existing_metadata)
           sheet_built == build_spritesheet(group.n_frames, StandardSize)
       IN  IF standard_files = <<>> \/ (group.raised = "" /\ group.n_frames = 0)
           THEN /\ run_pc' = "standard"
                /\ UNCHANGED <<metadata, written, atlases, exit_status, raised>>
           ELSE IF group.raised # ""
           THEN /\ Exit(1, group.raised)
                /\ UNCHANGED <<metadata, written, atlases>>
           ELSE /\ written' = written \cup SavedPaths("attack_spritesheet.png",
                                                      "munch/attack_spritesheet.png")
                /\ atlases' =
                      [path \in SavedPaths("attack_spritesheet.png",
                                           "munch/attack_spritesheet.png") |->
                          [size  |-> sheet_built.size,
                           cells |-> GridCells(sheet_built.positions, group.all_frames,
                                               StandardSize)]] @@ atlases
                /\ IF final.raised # ""
                   THEN /\ Exit(1, final.raised)
                        /\ UNCHANGED metadata
                   ELSE /\ metadata' = final.result @@ metadata
                        /\ run_pc' = "standard"
                        /\ UNCHANGED <<exit_status, raised>>
    /\ UNCHANGED <<script, earlier_run, target_dir, files, munch_assets_dir, json_file, at_start,
                   png_files, gif_files, existing_metadata>>
    /\ UNCHANGED notRunVars

\* Lines 372-385: grid_images, one grid per non-standard size.
GridImages(sizes, pngs, dir) ==
    [k \in 1..Len(sizes) |->
        LET group == process_size_group(FilesOfSize(pngs, sizes[k]), sizes[k], dir)
        IN  [group |-> group,
             sheet |-> IF group.raised = "" /\ group.n_frames > 0
                       THEN build_spritesheet(group.n_frames, sizes[k])
                       ELSE [size |-> <<0, 0>>, positions |-> <<>>],
             cells |-> IF group.raised = "" /\ group.n_frames > 0
                       THEN GridCells(build_spritesheet(group.n_frames, sizes[k]).positions,
                                      group.all_frames, sizes[k])
                       ELSE <<>>]]

\* The offset of a paste at the top of the combined image, whatever came
\* before.
YOffsetZero(grids, k) == 0

\* y_offset when the k-th grid is pasted (lines 393, 402).
RECURSIVE YOffset(_, _)
YOffset(grids, k) ==
    IF k = 1 THEN 0 ELSE YOffset(grids, k - 1) + grids[k - 1].sheet.size[2]

\* Line 399: adjusted_positions.
AdjustedPositions(pos, y_offset) ==
    [i \in 1..Len(pos) |-> <<pos[i][1], pos[i][2] + y_offset>>]

\* Line 400 for the first k grids: what metadata.update has collected, or the
\* exception of finalize_metadata.
RECURSIVE FinalizeGrids(_, _, _)
FinalizeGrids(grids, k, existing) ==
    IF k = 0 THEN [raised |-> "", result |-> NoMap]
    ELSE LET before == FinalizeGrids(grids, k - 1, existing)
             final  == finalize_metadata(
                           grids[k].group.size_metadata,
                           AdjustedPositions(grids[k].sheet.positions, YOffset(grids, k)),
                           existing)
         IN  IF before.raised # "" THEN before
             ELSE IF final.raised # "" THEN final
             ELSE [raised |-> "", result |-> final.result @@ before.result]

\* Line 388: max_width, over the first k grids.
RECURSIVE MaxWidth(_, _)
MaxWidth(grids, k) ==
    IF k = 0 THEN 0
    ELSE LET before == MaxWidth(grids, k - 1)
         IN  IF grids[k].sheet.size[1] > before THEN grids[k].sheet.size[1] ELSE before

\* Line 396: combined.paste(sheet, (0, y_offset)) moves the cells of a grid
\* down by y_offset.
Pasted(cells, y_offset) ==
    [i \in 1..Len(cells) |->
        [cells[i] EXCEPT !.at = <<cells[i].at[1], cells[i].at[2] + y_offset>>]]

\* Lines 392-402: the cells of the combined image after the first k pastes.
RECURSIVE CombinedCells(_, _)
CombinedCells(grids, k) ==
    IF k = 0 THEN <<>>
    ELSE CombinedCells(grids, k - 1) \o Pasted(grids[k].cells, YOffset(grids, k))

\* Lines 388-402: the combined image, of max_width by total_height.
Combined(grids) ==
    [size  |-> <<MaxWidth(grids, Len(grids)), YOffset(grids, Len(grids) + 1)>>,
     cells |-> CombinedCells(grids, Len(grids))]

\* Lines 367-413: the other sizes, stacked into one atlas. The metadata is
\* finalized before the atlas is saved.
AttackNonStandard ==
    /\ run_pc = "standard"
    /\ LET grids == GridImages(NonStandardSizes(png_files), png_files, files)
           final == FinalizeGrids(grids, Len(grids), existing_metadata)
       IN  IF \E k \in 1..Len(grids) : grids[k].group.raised # ""
           THEN /\ Exit(1, grids[CHOOSE k \in 1..Len(grids) :
                                   /\ grids[k].group.raised # ""
                                   /\ \A j \in 1..(k - 1) : grids[j].group.raised = ""
                                 ].group.raised)
                /\ UNCHANGED <<metadata, written, atlases>>
           ELSE IF \A k \in 1..Len(grids) : grids[k].group.n_frames = 0
           THEN /\ run_pc' = "packed"
                /\ UNCHANGED <<metadata, written, atlases, exit_status, raised>>
           ELSE IF final.raised # ""
           THEN /\ Exit(1, final.raised)
                /\ UNCHANGED <<metadata, written, atlases>>
           ELSE /\ metadata' = final.result @@ metadata
                /\ written' = written \cup SavedPaths("non_standard_spritesheet.png",
                                                      "munch/non_standard_spritesheet.png")
                /\ atlases' =
                      [path \in SavedPaths("non_standard_spritesheet.png",
                                           "munch/non_standard_spritesheet.png") |->
                          Combined(grids)] @@ atlases
                /\ run_pc' = "packed"
                /\ UNCHANGED <<exit_status, raised>>
    /\ UNCHANGED <<script, earlier_run, target_dir, files, munch_assets_dir, json_file, at_start,
                   png_files, gif_files, existing_metadata>>
    /\ UNCHANGED notRunVars

\* Line 419 writes the document; run returns True and main returns.
AttackWriteJson ==
    /\ run_pc = "packed"
    /\ json_file' = [kind |-> "object", entries |-> metadata]
    /\ written' = written \cup {"attack_spritesheet.json"}
    /\ Exit(0, "")
    /\ UNCHANGED <<script, earlier_run, atlases, target_dir, files, munch_assets_dir, at_start,
                   png_files, gif_files, existing_metadata, metadata>>
    /\ UNCHANGED notRunVars

\* ------------------------------------------------------------------------
\* The attack script run again over the directory a run has left
\* ------------------------------------------------------------------------

\* An atlas as the PNG file a later listing finds: as many 96x96 cells as
\* fit its size.
AtlasAsPng(atlas) ==
    [size |-> atlas.size, readable |-> TRUE, decodes |-> TRUE,
     cells |-> [k \in 1..((atlas.size[1] \div DEFAULT_FRAME_SIZE)
                           * (atlas.size[2] \div DEFAULT_FRAME_SIZE)) |-> 0]]

\* Lines 355-356 and 402-403: the atlases are saved into output_dir, which
\* is the directory the sources were listed from (line 455). The directory
\* after the run: its files, and the atlases saved under their two names.
DirectoryAfter(dir, sheets) ==
    LET stems == {n \in OUTPUT_FILES_stems : OutputPath(n) \in DOMAIN sheets}
    IN  [n \in DOMAIN dir \cup stems |->
            IF n \in stems THEN AtlasAsPng(sheets[OutputPath(n)]) ELSE dir[n]]

\* python createAttackSpritesheets.py over the same directory, after a run
\* has ended: the sources are as they were, the atlases and the document
\* that run wrote are in the directory.
AttackRunAgain ==
    /\ run_pc = "exit"
    /\ script = "attack"
    /\ target_dir = "present"
    /\ earlier_run = NoRun
    /\ earlier_run' = [ran         |-> TRUE,
                       files       |-> files,
                       png_files   |-> png_files,
                       metadata    |-> metadata,
                       json_file   |-> json_file,
                       written     |-> written,
                       exit_status |-> exit_status]
    /\ files' = DirectoryAfter(files, atlases)
    /\ at_start' = [files |-> files', json_file |-> json_file]
    /\ png_files' = <<>>
    /\ existing_metadata' = NoDoc
    /\ metadata' = NoMap
    /\ written' = {}
    /\ atlases' = NoMap
    /\ exit_status' = -1
    /\ raised' = ""
    /\ run_pc' = "start"
    /\ UNCHANGED <<script, target_dir, munch_assets_dir, json_file, gif_files>>
    /\ UNCHANGED notRunVars

NextRerun ==
    \/ RunNoDirectory
    \/ RunFind
    \/ RunNoSources
    \/ AttackLoadExisting
    \/ AttackStandard
    \/ AttackNonStandard
    \/ AttackWriteJson
    \/ AttackRunAgain

SpecRerun == InitAttack /\ [][NextRerun]_vars

\* ------------------------------------------------------------------------
\* createSpritesheets.py: create_spritesheets (lines 131-197)
\* ------------------------------------------------------------------------

MORPH_FRAMES == 8

\* extract_frames, line 32: img.info.get('duration', 100)
FrameRate(file) == IF file.duration = <<>> THEN 100 ELSE file.duration[1]

\* len(all_frames) after the first k GIFs (lines 142-143).
RECURSIVE GifFramesBefore(_, _, _)
GifFramesBefore(gifs, k, dir) ==
    IF k = 0 THEN 0 ELSE GifFramesBefore(gifs, k - 1, dir) + dir[gifs[k]].n_frames

\* positions[start + i] for i in range(count)
PositionsFrom(pos, start, count) == [i \in 1..count |-> pos[start + (i - 1) + 1]]

\* The order that leaves a list as it is.
reversedNot(seq) == seq

\* switch_frames[::-1], list(reversed(frames))
reversed(seq) == [i \in 1..Len(seq) |-> seq[Len(seq) + 1 - i]]

\* The switchOut and switchIn of one file (createSpritesheets.py lines
\* 190-192, spritesheet.py lines 411-420).
SwitchData(switch_frames) ==
    [switchOut |-> [msPerFrame |-> 100, frames |-> switch_frames],
     switchIn  |-> [msPerFrame |-> 100, frames |-> reversed(switch_frames)]]

\* The metadata of lines 136-192: every GIF's frames on the main sheet and
\* its MORPH_FRAMES morph frames on the switch sheet.
MonMetadata(gifs, dir) ==
    LET pos == build_spritesheet(GifFramesBefore(gifs, Len(gifs), dir),
                                 <<FRAME_SIZE, FRAME_SIZE>>).positions
        switch_positions == build_spritesheet(Len(gifs) * MORPH_FRAMES,
                                              <<FRAME_SIZE, FRAME_SIZE>>).positions
    IN  [name \in SetOf(gifs) |->
            LET k == CHOOSE k \in 1..Len(gifs) : gifs[k] = name
            IN  [msPerFrame |-> FrameRate(dir[name]),
                 frames     |-> PositionsFrom(pos, GifFramesBefore(gifs, k - 1, dir),
                                              dir[name].n_frames)]
                @@ SwitchData(PositionsFrom(switch_positions, (k - 1) * MORPH_FRAMES,
                                            MORPH_FRAMES))]

\* extract_frames (lines 29-33) decodes every frame of the GIF.
ExtractsAll(file) == file.decoded = file.n_frames

\* Lines 133-181: the frames are extracted, the two sheets built and saved;
\* the munch directory gets copies. Nothing catches what extract_frames
\* raises on a GIF whose frames cannot all be decoded.
MonSaveSheets ==
    /\ run_pc = "found"
    /\ script = "mon"
    /\ gif_files # <<>>
    /\ IF \A k \in 1..Len(gif_files) : ExtractsAll(files[gif_files[k]])
       THEN /\ written' = written
                    \cup SavedPaths("mon_spritesheet.png", "munch/mon_spritesheet.png")
                    \cup SavedPaths("mon_switch.png", "munch/mon_switch.png")
            /\ run_pc' = "sheets"
            /\ UNCHANGED <<exit_status, raised>>
       ELSE /\ Exit(1, "OSError")
            /\ UNCHANGED written
    /\ UNCHANGED <<script, earlier_run, atlases, target_dir, files, munch_assets_dir, json_file, at_start,
                   png_files, gif_files, existing_metadata, metadata>>
    /\ UNCHANGED notRunVars

\* Lines 183-197: the metadata is finalized and written over spritesheet.json;
\* main returns.
MonWriteJson ==
    /\ run_pc = "sheets"
    /\ metadata' = MonMetadata(gif_files, files)
    /\ json_file' = [kind |-> "object", entries |-> metadata']
    /\ written' = written \cup {"spritesheet.json"}
    /\ Exit(0, "")
    /\ UNCHANGED <<script, earlier_run, atlases, target_dir, files, munch_assets_dir, at_start,
                   png_files, gif_files, existing_metadata>>
    /\ UNCHANGED notRunVars

\* ------------------------------------------------------------------------
\* spritesheet.py: the two passes of main (lines 464-503)
\* ------------------------------------------------------------------------

\* num_morph_frames, the default of create_switch_spritesheet_and_metadata.
num_morph_frames == 6

\* extract_all_frames (lines 39-64) catches what the decoder raises and
\* returns the frames decoded until then.
RECURSIVE DecodedBefore(_, _, _)
DecodedBefore(gifs, k, dir) ==
    IF k = 0 THEN 0 ELSE DecodedBefore(gifs, k - 1, dir) + dir[gifs[k]].decoded

\* The GIFs that give a first frame: those with an entry in the metadata of
\* the first pass (lines 279-283) and those whose img.copy() the second pass
\* gets (lines 333-334).
WithFirstFrame(gifs, dir) == SelectSeq(gifs, LAMBDA g : dir[g].decoded > 0)

\* create_spritesheet_and_metadata (lines 228-303): the frames of all GIFs on
\* spritesheet.png, their rates and positions dumped over spritesheet.json.
LegacyMetadata(gifs, dir) ==
    LET pos == build_spritesheet(DecodedBefore(gifs, Len(gifs), dir),
                                 <<FRAME_SIZE, FRAME_SIZE>>).positions
    IN  [name \in SetOf(WithFirstFrame(gifs, dir)) |->
            LET k == CHOOSE k \in 1..Len(gifs) : gifs[k] = name
            IN  [msPerFrame |-> FrameRate(dir[name]),
                 frames     |-> PositionsFrom(pos, DecodedBefore(gifs, k - 1, dir),
                                              dir[name].decoded)]]

\* The first pass; without a single frame it raises the ValueError of line
\* 253 before it saves anything.
LegacyMain ==
    /\ run_pc = "found"
    /\ script = "legacy"
    /\ gif_files # <<>>
    /\ IF DecodedBefore(gif_files, Len(gif_files), files) = 0
       THEN /\ Exit(1, "ValueError")
            /\ UNCHANGED <<metadata, json_file, written>>
       ELSE /\ metadata' = LegacyMetadata(gif_files, files)
            /\ json_file' = [kind |-> "object", entries |-> metadata']
            /\ written' = written \cup {"spritesheet.png", "spritesheet.json"}
            /\ run_pc' = "main"
            /\ UNCHANGED <<exit_status, raised>>
    /\ UNCHANGED <<script, earlier_run, atlases, target_dir, files, munch_assets_dir, at_start,
                   png_files, gif_files, existing_metadata>>
    /\ UNCHANGED notRunVars

\* Lines 400-446: final_metadata, laid over the entries of the document
\* loaded from spritesheet.json.
LegacySwitchMetadata(gifs, existing) ==
    LET frame_positions == build_spritesheet(Len(gifs) * num_morph_frames,
                                             <<FRAME_SIZE, FRAME_SIZE>>).positions
    IN  [name \in SetOf(gifs) |->
            LET k == CHOOSE k \in 1..Len(gifs) : gifs[k] = name
            IN  SwitchData(PositionsFrom(frame_positions, (k - 1) * num_morph_frames,
                                         num_morph_frames))
                @@ (IF name \in DOMAIN existing THEN existing[name] ELSE NoMap)]
        @@ existing

\* create_switch_spritesheet_and_metadata (lines 306-461): the GIFs whose
\* first frame cannot be decoded are passed over (lines 360-362), switch.png is
\* saved, then the document the first pass wrote is loaded, extended and
\* written back; main returns.
LegacySwitch ==
    /\ run_pc = "main"
    /\ existing_metadata' = json_file
    /\ metadata' = LegacySwitchMetadata(WithFirstFrame(gif_files, files),
                                        json_file.entries)
    /\ json_file' = [kind |-> "object", entries |-> metadata']
    /\ written' = written \cup {"switch.png"}
    /\ Exit(0, "")
    /\ UNCHANGED <<script, earlier_run, atlases, target_dir, files, munch_assets_dir, at_start,
                   png_files, gif_files>>
    /\ UNCHANGED notRunVars

\* ------------------------------------------------------------------------
\* The runs
\* ------------------------------------------------------------------------

InitAnyRun == InitAttack \/ InitMon \/ InitLegacy

NextRun ==
    \/ RunUsage
    \/ RunNoDirectory
    \/ RunFind
    \/ RunNoSources
    \/ AttackLoadExisting
    \/ AttackStandard
    \/ AttackNonStandard
    \/ AttackWriteJson
    \/ MonSaveSheets
    \/ MonWriteJson
    \/ LegacyMain
    \/ LegacySwitch

SpecRun == InitAnyRun /\ [][NextRun]_vars

\* ------------------------------------------------------------------------
\* Claims about the runs
\* ------------------------------------------------------------------------

\* The valid sources of the directory the run started on, read off the
\* directory: PNGs that are no output file, open, and are a whole number of
\* declared frames wide and high; GIFs that open and are 96 x 96.
ValidSources ==
    IF script = "attack"
    THEN {n \in DOMAIN at_start.files :
            /\ n \notin {"attack_spritesheet", "non_standard_spritesheet"}
            /\ at_start.files[n].readable
            /\ at_start.files[n].size[1] % DeclaredSize(n)[1] = 0
            /\ at_start.files[n].size[2] % DeclaredSize(n)[2] = 0}
    ELSE {n \in DOMAIN at_start.files :
            /\ at_start.files[n].readable
            /\ at_start.files[n].size = <<96, 96>>}

\* The run has ended normally and has written its metadata document.
Emitted(path) == run_pc = "exit" /\ exit_status = 0 /\ path \in written

\* C6: in the spritesheet.json a run of createSpritesheets.py or of
\* spritesheet.py has emitted, every source whose first frame can be decoded
\* has an entry, and every entry has a switchOut and a switchIn of the same
\* msPerFrame and the same number of coordinates, the i-th coordinate of
\* switchIn being the i-th from the end of switchOut.
C6_SwitchInReversed ==
    (script \in {"mon", "legacy"} /\ Emitted("spritesheet.json")) =>
        /\ {name \in ValidSources : at_start.files[name].decoded > 0}
              \subseteq DOMAIN json_file.entries
        /\ \A name \in DOMAIN json_file.entries :
              /\ {"switchIn", "switchOut"} \subseteq DOMAIN json_file.entries[name]
              /\ LET out == json_file.entries[name].switchOut
                     in  == json_file.entries[name].switchIn
                 IN  /\ in.msPerFrame = out.msPerFrame
                     /\ Len(in.frames) = Len(out.frames)
                     /\ \A i \in 1..Len(out.frames) :
                           in.frames[i] = out.frames[Len(out.frames) + 1 - i]

\* Two GIFs: the second one's eight morph frames fill the lower half of the
\* 4 x 4 switch sheet, and its switchIn starts where its switchOut ends.
C6_Witness ==
    /\ script = "mon"
    /\ Emitted("spritesheet.json")
    /\ gif_files = <<"mon_back.gif", "mon_front.gif">>
    /\ json_file.entries["mon_front.gif"].switchOut.frames[1] = <<0, 192>>
    /\ json_file.entries["mon_front.gif"].switchOut.frames[8] = <<288, 288>>
    /\ json_file.entries["mon_front.gif"].switchIn.frames[1] = <<288, 288>>
    /\ json_file.entries["mon_front.gif"].switchIn.frames[8] = <<0, 192>>

\* The legacy script's six morph frames, reversed alike.
C6_WitnessLegacy ==
    /\ script = "legacy"
    /\ Emitted("spritesheet.json")
    /\ gif_files = <<"mon_back.gif">>
    /\ Len(json_file.entries["mon_back.gif"].switchOut.frames) = 6
    /\ json_file.entries["mon_back.gif"].switchOut.frames[1] = <<0, 0>>
    /\ json_file.entries["mon_back.gif"].switchIn.frames[6] = <<0, 0>>
    /\ json_file.entries["mon_back.gif"].switchIn.frames[1] = <<192, 96>>

\* The msPerFrame the document the run found holds for a name, if any.
PreviousMs(name) ==
    IF /\ at_start.json_file.kind = "object"
       /\ name \in DOMAIN at_start.json_file.entries
       /\ "msPerFrame" \in DOMAIN at_start.json_file.entries[name]
    THEN <<at_start.json_file.entries[name].msPerFrame>>
    ELSE <<>>

\* C7: in the attack_spritesheet.json a run of create_attack_spritesheets has
\* written, every current source has the msPerFrame the previous document
\* held for its name, and 100 if the previous document held none.
C7_PreservesMsPerFrame ==
    (script = "attack" /\ Emitted("attack_spritesheet.json")) =>
        \A name \in ValidSources :
            /\ name \in DOMAIN json_file.entries
            /\ json_file.entries[name].msPerFrame =
                  IF PreviousMs(name) # <<>> THEN PreviousMs(name)[1] ELSE 100

\* The previous document held 50 for bite and nothing for chain_expansion;
\* the new one holds 50 and 100.
C7_Witness ==
    /\ script = "attack"
    /\ Emitted("attack_spritesheet.json")
    /\ at_start.json_file.kind = "object"
    /\ PreviousMs("bite") = <<50>>
    /\ ValidSources = {"bite", "chain_expansion"}
    /\ json_file.entries["bite"].msPerFrame = 50
    /\ json_file.entries["chain_expansion"].msPerFrame = 100

\* C8, as the specification states it: after create_spritesheets (or the two
\* passes of spritesheet.py) ran over a directory holding a spritesheet.json,
\* every source named in that document keeps the document's msPerFrame, for
\* the main animation and for switchIn and switchOut.
C8_AsStated ==
    (script \in {"mon", "legacy"} /\ Emitted("spritesheet.json")
       /\ at_start.json_file.kind = "object") =>
        \A name \in ValidSources \cap DOMAIN at_start.json_file.entries :
            LET old == at_start.json_file.entries[name]
                new == json_file.entries[name]
            IN  /\ new.msPerFrame = old.msPerFrame
                /\ new.switchIn.msPerFrame = old.switchIn.msPerFrame
                /\ new.switchOut.msPerFrame = old.switchOut.msPerFrame

\* C10: a run over a directory without a valid source writes no file, leaves
\* the metadata document as it found it, never gets past listing the sources,
\* is never stuck before its exit, and exits with a status other than 0.
C10_NoSourceNoOutput ==
    (run_pc # "idle" /\ target_dir = "present" /\ ValidSources = {}) =>
        /\ written = {}
        /\ json_file = at_start.json_file
        /\ run_pc \in {"start", "found", "exit"}
        /\ run_pc # "exit" => ENABLED NextRun
        /\ run_pc = "exit" => exit_status # 0

\* A directory holding a GIF of the wrong size only, with a document: the run
\* has exited with status 1 and has written nothing.
C10_Witness ==
    /\ script = "mon"
    /\ target_dir = "present"
    /\ DOMAIN files = {"mon_front.gif"}
    /\ files["mon_front.gif"].size = <<64, 64>>
    /\ at_start.json_file.kind = "object"
    /\ run_pc = "exit"
    /\ exit_status = 1
    /\ written = {}

\* The attack script over a directory holding an earlier atlas and a PNG that
\* is no whole number of frames wide.
C10_WitnessAttack ==
    /\ script = "attack"
    /\ DOMAIN files = {"attack_spritesheet", "bite"}
    /\ files["attack_spritesheet"].readable
    /\ files["bite"].size = <<96 + Slack, 96>>
    /\ run_pc = "exit"
    /\ exit_status = 1
    /\ written = {}

\* The sources that cannot be read or decoded: images that do not open, and
\* images that open and whose pixel data fails while the frames are decoded.
FailedSources ==
    IF script = "attack"
    THEN {n \in DOMAIN at_start.files :
            /\ n \notin {"attack_spritesheet", "non_standard_spritesheet"}
            /\ ~(at_start.files[n].readable /\ at_start.files[n].decodes)}
    ELSE {n \in DOMAIN at_start.files :
            ~(at_start.files[n].readable
              /\ at_start.files[n].decoded = at_start.files[n].n_frames)}

\* The metadata document of the script.
JsonPath == IF script = "attack" THEN "attack_spritesheet.json" ELSE "spritesheet.json"

\* C11, as the specification states it: when a source cannot be read or
\* decoded, at the opening of the file or later, and another source is sound,
\* the run ends normally with its outputs written, the failed source has no
\* metadata entry, and the sound sources have theirs. (Runs that end for
\* another reason, a previous document that is no object or gachachacha
\* variants of different lengths, are set aside.)
C11_AsStated ==
    (/\ run_pc = "exit"
     /\ target_dir = "present"
     /\ FailedSources # {}
     /\ ValidSources \ FailedSources # {}
     /\ raised \notin {"AttributeError", "IndexError"}) =>
        /\ exit_status = 0
        /\ JsonPath \in written
        /\ FailedSources \cap DOMAIN json_file.entries = {}
        /\ ValidSources \ FailedSources \subseteq DOMAIN json_file.entries

\* What the code does hold to: a source that Image.open cannot read is passed
\* over and the run completes with the entries of the sound sources, as long
\* as every file that opens also decodes.
C11_OpenFailureSkipped ==
    (/\ run_pc = "exit"
     /\ target_dir = "present"
     /\ ValidSources \ FailedSources # {}
     /\ \A n \in FailedSources : ~at_start.files[n].readable
     /\ raised \notin {"AttributeError", "IndexError"}) =>
        /\ exit_status = 0
        /\ JsonPath \in written
        /\ DOMAIN json_file.entries = ValidSources

\* One GIF that cannot be opened next to a sound one: the run has completed
\* with the sound one's entry alone.
C11_WitnessOpenFailure ==
    /\ script = "mon"
    /\ run_pc = "exit"
    /\ exit_status = 0
    /\ FailedSources = {"mon_back.gif"}
    /\ ~files["mon_back.gif"].readable
    /\ DOMAIN json_file.entries = {"mon_front.gif"}

\* C13, as the specification states it: when the attack_spritesheet.json the
\* run finds cannot be parsed, or parses to something that is no object of
\* objects, the run completes as a first run: it ends normally, the document
\* is written with an entry for every source, each at 100 ms per frame. (Runs
\* that end for another reason, a source that does not decode or gachachacha
\* variants of different lengths, are set aside.)
C13_AsStated ==
    (/\ script = "attack"
     /\ run_pc = "exit"
     /\ png_files # <<>>
     /\ at_start.json_file.kind \in {"unparseable", "nonobject"}
     /\ raised \notin {"OSError", "IndexError"}) =>
        /\ exit_status = 0
        /\ Emitted("attack_spritesheet.json")
        /\ DOMAIN json_file.entries = ValidSources
        /\ \A name \in DOMAIN json_file.entries :
              json_file.entries[name].msPerFrame = 100

\* What the code does hold to: a document json.loads cannot parse is passed
\* over and the run completes as a first run.
C13_UnparseableAsEmpty ==
    (/\ script = "attack"
     /\ run_pc = "exit"
     /\ png_files # <<>>
     /\ at_start.json_file.kind = "unparseable"
     /\ raised \notin {"OSError", "IndexError"}) =>
        /\ exit_status = 0
        /\ Emitted("attack_spritesheet.json")
        /\ DOMAIN json_file.entries = ValidSources
        /\ \A name \in DOMAIN json_file.entries :
              json_file.entries[name].msPerFrame = 100

\* A run over bite and chain_expansion that found an unparseable document
\* and has written both entries at 100 ms.
C13_WitnessUnparseable ==
    /\ script = "attack"
    /\ run_pc = "exit"
    /\ at_start.json_file.kind = "unparseable"
    /\ ValidSources = {"bite", "chain_expansion"}
    /\ Emitted("attack_spritesheet.json")
    /\ json_file.entries["bite"].msPerFrame = 100
    /\ json_file.entries["chain_expansion"].msPerFrame = 100

\* The atlas an entry's frame size puts it in.
AtlasOf(entry) ==
    IF <<entry.width, entry.height>> = StandardSize
    THEN "attack_spritesheet.png"
    ELSE "non_standard_spritesheet.png"

\* The cells of an atlas pasted at a position.
CellsAt(atlas, p) == {k \in 1..Len(atlas.cells) : atlas.cells[k].at = p}

\* C17, first half, on the deduplicator alone: at every moment of the loop
\* the pool frame at variant_indices[v][i] has the content of v's frame i.
C17_PoolKeepsContent ==
    \A v \in DOMAIN variant_indices :
        \A i \in 1..Len(variant_indices[v]) :
            /\ variant_indices[v][i] + 1 \in 1..Len(unique_frames)
            /\ unique_frames[variant_indices[v][i] + 1] = variant_frames[v][i]

\* C17: once the attack run has finalized the metadata of the gachachacha
\* variants, for every variant v and every index i of its entry the saved
\* atlas holds, at the position metadata[v].frames[i], exactly one cell, of
\* the entry's size, whose content is that of cell i of v's source file.
C17_VariantsShowTheirFrames ==
    script = "attack" =>
        \A v \in SetOf(GACHACHACHA_VARIANTS) \cap DOMAIN metadata :
            /\ AtlasOf(metadata[v]) \in DOMAIN atlases
            /\ Len(metadata[v].frames) <= Len(files[v].cells)
            /\ \A i \in 1..Len(metadata[v].frames) :
                  LET atlas == atlases[AtlasOf(metadata[v])]
                      here  == CellsAt(atlas, metadata[v].frames[i])
                  IN  /\ Cardinality(here) = 1
                      /\ \A k \in here :
                            /\ atlas.cells[k].content = files[v].cells[i]
                            /\ atlas.cells[k].size =
                                  <<metadata[v].width, metadata[v].height>>

\* Bunnies of two identical frames next to carrots of two different ones:
\* two frames in the pool, the first shown at three of the four positions,
\* the second by the carrots' last frame alone, and the document written.
C17_Witness ==
    /\ script = "attack"
    /\ Emitted("attack_spritesheet.json")
    /\ DOMAIN metadata = {"gachachacha_bunnies", "gachachacha_carrots"}
    /\ files["gachachacha_bunnies"].cells = <<0, 0>>
    /\ files["gachachacha_carrots"].cells = <<0, 1>>
    /\ Len(atlases["attack_spritesheet.png"].cells) = 2
    /\ metadata["gachachacha_bunnies"].frames = <<<<0, 0>>, <<0, 0>>>>
    /\ metadata["gachachacha_carrots"].frames = <<<<0, 0>>, <<96, 0>>>>

\* build_attack_sprite (generateTypeScript.py lines 54-84) on a key of the
\* documents: the atlas the sprite is given, with the frames and the frame
\* size of the entry; <<>> for None. A key of attack_spritesheet.json gets
\* attack_spritesheet.png, whatever its size.
build_attack_sprite(key, attack_spritesheet_data, non_standard_spritesheet_data) ==
    IF key \in DOMAIN attack_spritesheet_data
    THEN [spritesheetUrl |-> "/assets/attacks/attack_spritesheet.png",
          frames         |-> attack_spritesheet_data[key].frames,
          frameWidth     |-> attack_spritesheet_data[key].width,
          frameHeight    |-> attack_spritesheet_data[key].height]
    ELSE IF key \in DOMAIN non_standard_spritesheet_data
    THEN [spritesheetUrl |-> "/assets/attacks/non_standard_spritesheet.png",
          frames         |-> non_standard_spritesheet_data[key].frames,
          frameWidth     |-> non_standard_spritesheet_data[key].width,
          frameHeight    |-> non_standard_spritesheet_data[key].height]
    ELSE <<>>

\* The file of the output directory served under a url of the sprites.
ServedFile(url) ==
    IF url = "/assets/attacks/attack_spritesheet.png"
    THEN "attack_spritesheet.png"
    ELSE "non_standard_spritesheet.png"

\* C18, as the specification states it: for every entry of the
\* attack_spritesheet.json a run has written, the atlas build_attack_sprite
\* gives the entry (no non_standard_spritesheet.json exists, no script writes
\* one) was saved by the run and holds every frame rectangle of the entry
\* within its bounds.
C18_AsStated ==
    (script = "attack" /\ Emitted("attack_spritesheet.json")) =>
        \A key \in DOMAIN json_file.entries :
            LET sprite == build_attack_sprite(key, json_file.entries, NoMap)
                served == ServedFile(sprite.spritesheetUrl)
            IN  /\ served = "attack_spritesheet.png"
                /\ served \in DOMAIN atlases
                /\ \A i \in 1..Len(sprite.frames) :
                      RectInside(sprite.frames[i],
                                 <<sprite.frameWidth, sprite.frameHeight>>,
                                 atlases[served].size)

\* What the code does hold to: every frame rectangle of an entry lies within
\* the atlas the run pasted the entry's frames into, attack_spritesheet.png
\* for the 96x96 entries and non_standard_spritesheet.png for the others.
C18_InsideOwnAtlas ==
    (script = "attack" /\ Emitted("attack_spritesheet.json")) =>
        \A key \in DOMAIN json_file.entries :
            /\ AtlasOf(json_file.entries[key]) \in DOMAIN atlases
            /\ \A i \in 1..Len(json_file.entries[key].frames) :
                  RectInside(json_file.entries[key].frames[i],
                             <<json_file.entries[key].width, json_file.entries[key].height>>,
                             atlases[AtlasOf(json_file.entries[key])].size)

\* A run over bite and chain_expansion: both entries are in the document,
\* the 360x180 frame of chain_expansion lies in non_standard_spritesheet.png
\* and not within the 96x96 attack_spritesheet.png.
C18_WitnessTwoAtlases ==
    /\ script = "attack"
    /\ Emitted("attack_spritesheet.json")
    /\ DOMAIN json_file.entries = {"bite", "chain_expansion"}
    /\ atlases["attack_spritesheet.png"].size = <<96, 96>>
    /\ AtlasOf(json_file.entries["chain_expansion"]) = "non_standard_spritesheet.png"
    /\ ~RectInside(json_file.entries["chain_expansion"].frames[1],
                   <<json_file.entries["chain_expansion"].width,
                     json_file.entries["chain_expansion"].height>>,
                   atlases["attack_spritesheet.png"].size)

\* The entries of the run whose frames are not 96x96, and their sizes.
NonStandardEntries ==
    {n \in DOMAIN metadata : <<metadata[n].width, metadata[n].height>> # StandardSize}

SizeOfEntry(n) == <<metadata[n].width, metadata[n].height>>

\* The number of frames of the entries of one size.
RECURSIVE FramesOfEntries(_)
FramesOfEntries(names) ==
    IF names = {} THEN 0
    ELSE LET n == CHOOSE n \in names : TRUE
         IN  Len(metadata[n].frames) + FramesOfEntries(names \ {n})

\* The grid of one size on its own: ceil(sqrt(n)) columns of its frames.
GridOfSize(fsize) ==
    build_spritesheet(FramesOfEntries({n \in NonStandardEntries : SizeOfEntry(n) = fsize}),
                      fsize)

\* The sizes that sort before a size: by width, then by height.
SizesBefore(fsize) ==
    {t \in {SizeOfEntry(n) : n \in NonStandardEntries} :
        t[1] < fsize[1] \/ (t[1] = fsize[1] /\ t[2] < fsize[2])}

RECURSIVE HeightOfGrids(_)
HeightOfGrids(sizes) ==
    IF sizes = {} THEN 0
    ELSE LET t == CHOOSE t \in sizes : TRUE
         IN  GridOfSize(t).size[2] + HeightOfGrids(sizes \ {t})

\* Two rectangles, each with its own size, share a pixel.
Overlap(a, asize, b, bsize) ==
    /\ a[1] < b[1] + bsize[1] /\ b[1] < a[1] + asize[1]
    /\ a[2] < b[2] + bsize[2] /\ b[2] < a[2] + asize[2]

\* C19: when the attack run has saved the combined atlas, its size is the
\* largest grid width by the sum of the grid heights; the frames of the
\* entries of one size are placed where the grid of that size places them,
\* moved down by the heights of the grids of the sizes sorted before; every
\* frame rectangle lies inside the atlas; and no two cells of the atlas
\* overlap, of one size or of two.
C19_CombinedStacksGrids ==
    (script = "attack" /\ "non_standard_spritesheet.png" \in DOMAIN atlases
       /\ run_pc \in {"packed", "exit"}) =>
    LET atlas == atlases["non_standard_spritesheet.png"]
        sizes == {SizeOfEntry(n) : n \in NonStandardEntries}
    IN  /\ sizes # {}
        /\ atlas.size[2] = HeightOfGrids(sizes)
        /\ \A t \in sizes : GridOfSize(t).size[1] <= atlas.size[1]
        /\ \E t \in sizes : GridOfSize(t).size[1] = atlas.size[1]
        /\ \A t \in sizes :
              {metadata[n].frames[i] :
                  <<n, i>> \in {ni \in NonStandardEntries \X (1..MaxFrames) :
                                  /\ SizeOfEntry(ni[1]) = t
                                  /\ ni[2] <= Len(metadata[ni[1]].frames)}}
              = {<<GridOfSize(t).positions[k][1],
                   GridOfSize(t).positions[k][2] + HeightOfGrids(SizesBefore(t))>>
                  : k \in 1..Len(GridOfSize(t).positions)}
        /\ \A n \in NonStandardEntries : \A i \in 1..Len(metadata[n].frames) :
              /\ RectInside(metadata[n].frames[i], SizeOfEntry(n), atlas.size)
              /\ Cardinality(CellsAt(atlas, metadata[n].frames[i])) = 1
        /\ \A j, k \in 1..Len(atlas.cells) :
              j # k => ~Overlap(atlas.cells[j].at, atlas.cells[j].size,
                                atlas.cells[k].at, atlas.cells[k].size)

\* stat_boost_player of two 106x106 frames above chain_expansion of one
\* 360x180 frame: a 360 x 286 atlas, the second grid 106 pixels down.
C19_Witness ==
    /\ script = "attack"
    /\ Emitted("attack_spritesheet.json")
    /\ NonStandardEntries = {"stat_boost_player", "chain_expansion"}
    /\ metadata["stat_boost_player"].frames = <<<<0, 0>>, <<106, 0>>>>
    /\ metadata["chain_expansion"].frames = <<<<0, 106>>>>
    /\ atlases["non_standard_spritesheet.png"].size = <<360, 286>>

\* C26: in every run of the attack script, also one over a directory that
\* holds the atlases an earlier run wrote, no atlas is among the sources
\* selected; and with the source files unchanged the second run selects the
\* sources the first selected and, if the first emitted its metadata
\* document, ends normally and emits the same document.
C26_AtlasesNeverSources ==
    script = "attack" =>
        /\ \A k \in 1..Len(png_files) :
              png_files[k].name \notin {"attack_spritesheet", "non_standard_spritesheet"}
        /\ (earlier_run.ran /\ run_pc # "start") =>
              png_files = earlier_run.png_files
        /\ (/\ earlier_run.ran
            /\ run_pc = "exit"
            /\ earlier_run.exit_status = 0
            /\ "attack_spritesheet.json" \in earlier_run.written)
              => /\ Emitted("attack_spritesheet.json")
                 /\ metadata = earlier_run.metadata
                 /\ json_file = earlier_run.json_file

\* The first run found bite and stat_boost_player and wrote both atlases
\* into the directory, which held neither; the second run, listing four PNG
\* files, has ended with the two sources and the first run's document.
C26_Witness ==
    /\ script = "attack"
    /\ earlier_run.ran
    /\ DOMAIN earlier_run.files = {"bite", "stat_boost_player"}
    /\ earlier_run.written = {"attack_spritesheet.png", "non_standard_spritesheet.png",
                              "attack_spritesheet.json"}
    /\ DOMAIN files = {"bite", "stat_boost_player", "attack_spritesheet",
                       "non_standard_spritesheet"}
    /\ Emitted("attack_spritesheet.json")
    /\ Len(png_files) = 2
    /\ DOMAIN json_file.entries = {"bite", "stat_boost_player"}
    /\ json_file = earlier_run.json_file

\* C29: the attack_spritesheet.json a run of create_attack_spritesheets has
\* written has an entry for exactly the sources the run processed; a name
\* of the previous document that no source bears has none; and every entry
\* has the four keys msPerFrame, width, height and frames, with the width
\* and height of the source's output frame and one coordinate per frame of
\* the source (per frame of the first variant, for a gachachacha variant),
\* only msPerFrame coming from the previous document.
C29_EntriesOfThisRunOnly ==
    (script = "attack" /\ Emitted("attack_spritesheet.json")) =>
        /\ DOMAIN json_file.entries = {png_files[k].name : k \in 1..Len(png_files)}
        /\ \A name \in DOMAIN at_start.json_file.entries :
              name \notin DOMAIN at_start.files => name \notin DOMAIN json_file.entries
        /\ \A k \in 1..Len(png_files) :
              LET entry == json_file.entries[png_files[k].name]
              IN  /\ DOMAIN entry = {"msPerFrame", "width", "height", "frames"}
                  /\ entry.width = OutputSize(png_files[k].name)[1]
                  /\ entry.height = OutputSize(png_files[k].name)[2]
                  /\ Len(entry.frames) =
                        LET first == IF png_files[k].name \in SetOf(GACHACHACHA_VARIANTS)
                                     THEN CHOOSE j \in 1..Len(png_files) :
                                            /\ png_files[j].name \in SetOf(GACHACHACHA_VARIANTS)
                                            /\ \A i \in 1..(j - 1) :
                                                  png_files[i].name
                                                      \notin SetOf(GACHACHACHA_VARIANTS)
                                     ELSE k
                        IN  png_files[first].cols * png_files[first].rows
                  /\ entry.msPerFrame =
                        IF PreviousMs(png_files[k].name) # <<>>
                        THEN PreviousMs(png_files[k].name)[1] ELSE 100

\* The previous document held an entry for a file that is gone, and
\* the directory holds chain_expansion alone: the new document has the one
\* entry chain_expansion, 360 wide.
C29_Witness ==
    /\ script = "attack"
    /\ Emitted("attack_spritesheet.json")
    /\ at_start.json_file.kind = "object"
    /\ DOMAIN at_start.json_file.entries = {"removed"}
    /\ DOMAIN at_start.files = {"chain_expansion"}
    /\ DOMAIN json_file.entries = {"chain_expansion"}
    /\ json_file.entries["chain_expansion"].width = 360

\* The previous document held, for chain_expansion, an entry 96 wide and 96
\* high with msPerFrame 50: the new entry keeps the 50 and is 360 by 180.
C29_WitnessFieldsFresh ==
    /\ script = "attack"
    /\ Emitted("attack_spritesheet.json")
    /\ at_start.json_file.kind = "object"
    /\ DOMAIN at_start.json_file.entries = {"chain_expansion"}
    /\ at_start.json_file.entries["chain_expansion"].width = 96
    /\ PreviousMs("chain_expansion") = <<50>>
    /\ json_file.entries["chain_expansion"].msPerFrame = 50
    /\ json_file.entries["chain_expansion"].width = 360
    /\ json_file.entries["chain_expansion"].height = 180

\* ------------------------------------------------------------------------
\* create_morph_animation (createSpritesheets.py lines 43-87) and
\* create_morphing_animation (spritesheet.py lines 102-225)
\* ------------------------------------------------------------------------

\* dw, dh = 4.0, 7.0: the half width and the half height of the diamond.
dw == 4

dh == 7

Abs(v) == IF v < 0 THEN -v ELSE v

Min2(a, b) == IF a < b THEN a ELSE b

\* Line 46: cx, cy; int(h * 0.65) is the whole part of 65 hundredths of h.
Centre(w, h, back) ==
    IF back THEN <<w \div 4, (h * 65) \div 100>> ELSE <<w \div 2, h \div 2>>

InCanvas(p, w, h) == 0 <= p[1] /\ p[1] < w /\ 0 <= p[2] /\ p[2] < h

\* Line 51: abs(x - cx) / dw + abs(y - cy) / dh <= 1.0, cleared of the
\* divisions. The two quotients are exact in floating point wherever the sum
\* is 1 (at the four tips), so the comparison is that of the integers.
InDiamond(p, c) == dh * Abs(p[1] - c[1]) + dw * Abs(p[2] - c[2]) <= dw * dh

\* count pixels of the rows of a block bw wide that starts at (x0, y0), in
\* the order of "for y in range(h) for x in range(w)".
RowMajor(x0, y0, bw, count) ==
    [j \in 1..count |-> <<x0 + ((j - 1) % bw), y0 + ((j - 1) \div bw)>>]

\* Line 51: diamond_pixels. No pixel outside the box of dw columns and dh
\* rows around the centre passes the test, so the box is what is scanned.
DiamondPixels(w, h, c) ==
    SelectSeq(RowMajor(c[1] - dw, c[2] - dh, 2 * dw + 1, (2 * dw + 1) * (2 * dh + 1)),
              LAMBDA p : InCanvas(p, w, h) /\ InDiamond(p, c))

\* The offsets for an edge distance taken from the larger half dimension.
EdgeOffsetsByHeight ==
    LET tenths == 8 * (IF dw < dh THEN dh ELSE dw)
    IN  {o \in (-dh..dh) \X (-dh..dh) :
            /\ 100 * (o[1] * o[1] + o[2] * o[2]) <= tenths * tenths
            /\ tenths * tenths <
                  100 * ((Abs(o[1]) + 1) * (Abs(o[1]) + 1) + (Abs(o[2]) + 1) * (Abs(o[2]) + 1))}

\* Lines 56, 61-62: (int(edge_dist * cos(angle)), int(edge_dist * sin(angle)))
\* for edge_dist = min(dw, dh) * 0.8 and any angle: int cuts towards zero, so
\* these are the unit cells, counted from the axes, that the circle of that
\* radius passes through. In tenths, edge_dist is 8 * min(dw, dh).
EdgeOffsets ==
    LET tenths == 8 * (IF dw < dh THEN dw ELSE dh)
    IN  {o \in (-dw..dw) \X (-dw..dw) :
            /\ 100 * (o[1] * o[1] + o[2] * o[2]) <= tenths * tenths
            /\ tenths * tenths <
                  100 * ((Abs(o[1]) + 1) * (Abs(o[1]) + 1) + (Abs(o[2]) + 1) * (Abs(o[2]) + 1))}

\* The target that is the first pixel of the diamond for every start pixel.
PairedTargetFirst(i, diamond) == diamond[1]

\* The target taken from the end of the diamond's pixels.
PairedTargetFromEnd(i, diamond) == diamond[Len(diamond) + 1 - i]

\* Line 59: tx, ty = diamond_pixels[i], for the i-th start pixel counted
\* from 1.
PairedTarget(i, diamond) == diamond[i]

\* random.uniform(-8, 8), twice over: the jitter of the control point, at
\* two of its values.
Jitters == {<<-8, 8>>, <<8, -8>>}

\* Line 63: the control point (sx + tx) / 2 + jitter, (sy + ty) / 2 + jitter,
\* kept doubled so that it stays whole.
Control(start, target, jitter) ==
    <<start[1] + target[1] + 2 * jitter[1], start[2] + target[2] + 2 * jitter[2]>>

\* The pixel data whose survives flag follows the target: set if the target
\* drawn lies in the diamond.
PixelDataSurvivesByTarget(white, diamond, c, edge, jitter) ==
    [i \in 1..Len(white) |->
        LET target == IF i <= Len(diamond) THEN PairedTarget(i, diamond)
                      ELSE <<c[1] + edge[i][1], c[2] + edge[i][2]>>
        IN  [start |-> white[i], target |-> target,
             control |-> Control(white[i], target, jitter),
             survives |-> \E k \in 1..Len(diamond) : diamond[k] = target]]

\* Lines 57-63: pixel_data. edge gives the offsets drawn for the pixels
\* beyond the diamond's count, jitter the one drawn for the control points.
PixelData(white, diamond, c, edge, jitter) ==
    [i \in 1..Len(white) |->
        LET target == IF i <= Len(diamond) THEN PairedTarget(i, diamond)
                      ELSE <<c[1] + edge[i][1], c[2] + edge[i][2]>>
        IN  [start |-> white[i], target |-> target,
             control |-> Control(white[i], target, jitter),
             survives |-> i <= Len(diamond)]]

\* The silhouettes handed to the morph: the first count pixels of a block of
\* 96x96 canvas rows, away from the diamond or over it.
Silhouettes ==
    {RowMajor(o[1], o[2], 12, count) : o \in {<<0, 0>>, <<40, 45>>},
                                       count \in 0..MaxStartPixels}

InitMorph ==
    /\ PackIdle /\ DedupIdle /\ SliceIdle /\ RunIdle /\ SaveIdle /\ SilhouetteIdle
    /\ SwitchGifIdle
    /\ DeployIdle /\ MoveCheckIdle
    /\ white_pixels \in Silhouettes
    /\ is_back \in BOOLEAN
    /\ num_frames \in 1..MaxMorphFrames
    /\ diamond_pixels = <<>>
    /\ pixel_data = <<>>
    /\ morph_frames = <<>>
    /\ morph_pc = "start"

\* Start pixels beyond the diamond's count in a crowded silhouette.
MaxExtraPixels == 2

\* Silhouettes with more pixels than the diamond has, by so many that some
\* pixel without a place in the diamond is still below the visible count of
\* the last frame: rows of the canvas from its corner.
CrowdedSilhouettes ==
    {RowMajor(0, 0, 12,
              Len(DiamondPixels(FRAME_SIZE, FRAME_SIZE,
                                Centre(FRAME_SIZE, FRAME_SIZE, FALSE)))
              + MaxExtraPixels)}

InitMorphCrowded ==
    /\ PackIdle /\ DedupIdle /\ SliceIdle /\ RunIdle /\ SaveIdle /\ SilhouetteIdle
    /\ SwitchGifIdle
    /\ DeployIdle /\ MoveCheckIdle
    /\ white_pixels \in CrowdedSilhouettes
    /\ is_back \in BOOLEAN
    /\ num_frames \in 1..2
    /\ diamond_pixels = <<>>
    /\ pixel_data = <<>>
    /\ morph_frames = <<>>
    /\ morph_pc = "start"

\* Lines 45-63: the centre, the diamond and the targets.
MorphAssign ==
    /\ morph_pc = "start"
    /\ diamond_pixels' = DiamondPixels(FRAME_SIZE, FRAME_SIZE,
                                       Centre(FRAME_SIZE, FRAME_SIZE, is_back))
    /\ \E edge \in [(Len(diamond_pixels') + 1)..Len(white_pixels) -> EdgeOffsets],
          jitter \in Jitters :
          pixel_data' = PixelData(white_pixels, diamond_pixels',
                                  Centre(FRAME_SIZE, FRAME_SIZE, is_back), edge, jitter)
    /\ morph_pc' = "frames"
    /\ UNCHANGED <<white_pixels, is_back, num_frames, morph_frames>>
    /\ UNCHANGED notMorphVars

\* The visible count without the lower limit total_final.
VisibleCountUnclamped(total_start, total_final, f, n) ==
    (total_start * (5 * (n - 1) - 2 * f) + total_final * 2 * f) \div (5 * (n - 1))

\* Line 71: max(int(total_start * (1 - progress * 0.4) + total_final *
\* progress * 0.4), total_final) for progress = f / (n - 1), as the quotient
\* of integers it is; up to 78 start pixels and 10 frames the floating point
\* value has the same whole part.
VisibleCount(total_start, total_final, f, n) ==
    LET whole == (total_start * (5 * (n - 1) - 2 * f) + total_final * 2 * f)
                     \div (5 * (n - 1))
    IN  IF whole > total_final THEN whole ELSE total_final

\* The pixel that is at its target in every frame.
PixelAtTarget(data, f, n) == data.target

\* Lines 75-83 in the first and in the last frame: the eased progress t is
\* exactly 0 and exactly 1 there and the radial factor exactly 1, so the pixel
\* is at its start and at its target.
PixelAt(data, f, n) == IF f = 0 THEN data.start ELSE data.target

\* The progress that is k over n - 1 but for the last frame.
ProgressOverN(f, n) == IF f = n - 1 THEN <<f, n - 1>> ELSE <<f, n>>

\* Line 68: progress = f / (MORPH_FRAMES - 1), kept as numerator and
\* denominator.
Progress(f, n) == <<f, n - 1>>

\* Lines 66-86: one frame. The pixels selected are those that survive or
\* come before visible_count; where they are drawn is kept for the first and
\* the last frame, in between it hangs on the random control points.
MorphFrame ==
    /\ morph_pc = "frames"
    /\ num_frames > 1
    /\ Len(morph_frames) < num_frames
    /\ LET f == Len(morph_frames)
           visible_count == VisibleCount(Len(white_pixels), Len(diamond_pixels),
                                         f, num_frames)
           selected == {i \in 1..Len(pixel_data) :
                          pixel_data[i].survives \/ i - 1 < visible_count}
           exact == f = 0 \/ f = num_frames - 1
       IN  morph_frames' = Append(morph_frames,
               [size          |-> <<FRAME_SIZE, FRAME_SIZE>>,
                progress      |-> Progress(f, num_frames),
                visible_count |-> visible_count,
                selected      |-> selected,
                exact         |-> exact,
                drawn         |->
                    IF exact
                    THEN [i \in {i \in selected :
                                   InCanvas(PixelAt(pixel_data[i], f, num_frames),
                                            FRAME_SIZE, FRAME_SIZE)} |->
                             PixelAt(pixel_data[i], f, num_frames)]
                    ELSE NoMap])
    /\ UNCHANGED <<white_pixels, is_back, num_frames, diamond_pixels, pixel_data, morph_pc>>
    /\ UNCHANGED notMorphVars

\* Line 68 with one frame: progress = 0 / 0.
MorphZeroDivision ==
    /\ morph_pc = "frames"
    /\ num_frames = 1
    /\ morph_pc' = "ZeroDivisionError"
    /\ UNCHANGED <<white_pixels, is_back, num_frames, diamond_pixels, pixel_data,
                   morph_frames>>
    /\ UNCHANGED notMorphVars

\* Line 87: return frames.
MorphReturn ==
    /\ morph_pc = "frames"
    /\ num_frames > 1
    /\ Len(morph_frames) = num_frames
    /\ morph_pc' = "done"
    /\ UNCHANGED <<white_pixels, is_back, num_frames, diamond_pixels, pixel_data,
                   morph_frames>>
    /\ UNCHANGED notMorphVars

NextMorph ==
    \/ MorphAssign
    \/ MorphFrame
    \/ MorphZeroDivision
    \/ MorphReturn

SpecMorph == InitMorph /\ [][NextMorph]_vars

SpecMorphCrowded == InitMorphCrowded /\ [][NextMorph]_vars

\* ------------------------------------------------------------------------
\* Claims about the morph
\* ------------------------------------------------------------------------

\* The membership set of the target diamond: the pixels with |x - cx| / 4 +
\* |y - cy| / 7 <= 1 around the centre of the 96 x 96 canvas, or around
\* (24, 62) for a back sprite; all of them lie on the canvas.
DiamondSet ==
    LET c == IF is_back THEN <<24, 62>> ELSE <<48, 48>>
    IN  {p \in ((c[1] - 4)..(c[1] + 4)) \X ((c[2] - 7)..(c[2] + 7)) :
            7 * Abs(p[1] - c[1]) + 4 * Abs(p[2] - c[2]) <= 28}

\* The pixels the last frame draws for the pixels flagged "survives".
LastSurvivorsDrawn ==
    LET last == morph_frames[num_frames]
    IN  {last.drawn[i] : i \in {i \in DOMAIN last.drawn : pixel_data[i].survives}}

\* C5, as the specification states it: whatever the start silhouette, the
\* pixels the last frame of a morph of two or more frames draws for the
\* surviving pixels are exactly the pixels of the diamond.
C5_AsStated ==
    (morph_pc = "done" /\ num_frames >= 2) => LastSurvivorsDrawn = DiamondSet

\* C5: when the start silhouette has at least as many opaque pixels as the
\* diamond has pixels, the pixels the last frame of a morph of two or more
\* frames draws for the surviving pixels are exactly the pixels of the diamond;
\* a smaller silhouette fills the diamond's first pixels, one per start pixel.
C5_EndpointConvergence ==
    (morph_pc = "done" /\ num_frames >= 2) =>
        /\ Len(white_pixels) >= Cardinality(DiamondSet) => LastSurvivorsDrawn = DiamondSet
        /\ LastSurvivorsDrawn \subseteq DiamondSet
        /\ Cardinality(LastSurvivorsDrawn) =
              IF Len(white_pixels) < Cardinality(DiamondSet)
              THEN Len(white_pixels) ELSE Cardinality(DiamondSet)

\* Sixty start pixels away from the diamond, eight frames: the last frame
\* shows the 59 pixels of the diamond for the survivors.
C5_Witness ==
    /\ morph_pc = "done"
    /\ num_frames = 8
    /\ Len(white_pixels) = 60
    /\ white_pixels[1] = <<0, 0>>
    /\ ~is_back
    /\ Cardinality(LastSurvivorsDrawn) = 59
    /\ <<48, 41>> \in LastSurvivorsDrawn
    /\ <<52, 48>> \in LastSurvivorsDrawn

\* Ten start pixels: the last frame shows ten pixels of the diamond only.
C5_WitnessSmall ==
    /\ morph_pc = "done"
    /\ num_frames = 2
    /\ Len(white_pixels) = 10
    /\ Cardinality(LastSurvivorsDrawn) = 10

\* C15, as the specification states it: for every frame count from 1 on, the
\* call returns, with exactly that many frames.
C15_AsStated ==
    (num_frames >= 1 /\ morph_pc \notin {"idle", "start", "frames"}) =>
        (morph_pc = "done" /\ Len(morph_frames) = num_frames)

\* C15: for every frame count from 2 on and every start silhouette the call
\* is never stuck and raises nothing, every frame built has the size of the
\* canvas, frame k is computed at progress k / (N - 1), and the call returns
\* exactly N frames. With N = 1 it raises ZeroDivisionError instead.
C15_FrameCount ==
    /\ \A k \in 1..Len(morph_frames) :
          /\ morph_frames[k].size = <<FRAME_SIZE, FRAME_SIZE>>
          /\ morph_frames[k].progress = <<k - 1, num_frames - 1>>
    /\ Len(morph_frames) <= num_frames
    /\ morph_pc = "done" => Len(morph_frames) = num_frames
    /\ morph_pc = "ZeroDivisionError" => num_frames = 1
    /\ (morph_pc = "frames" /\ num_frames >= 2) => ENABLED NextMorph

\* The eight frames of a full silhouette, returned: the last at progress 7/7.
C15_Witness ==
    /\ morph_pc = "done"
    /\ num_frames = MORPH_FRAMES
    /\ Len(white_pixels) > Len(diamond_pixels)
    /\ Len(morph_frames) = MORPH_FRAMES
    /\ morph_frames[4].progress = <<3, 7>>
    /\ morph_frames[MORPH_FRAMES].progress = <<7, 7>>

\* The indices, counted from 1, that pass the culling test of a frame, from
\* the two counts, the frame index and the number of frames alone.
CullingSet(total_start, total_final, f, n) ==
    LET visible_count == VisibleCount(total_start, total_final, f, n)
    IN  {i \in 1..total_start : i <= total_final \/ i <= visible_count}

\* C16: in every frame built, the visible count and the set of pixel indices
\* that pass the culling test are what the start count, the final count, the
\* frame index and the number of frames give, whatever edge targets and
\* control points were drawn: runs that differ only in these select the same
\* indices in every frame.
C16_CullingIndependentOfRandom ==
    \A k \in 1..Len(morph_frames) :
        /\ morph_frames[k].visible_count =
              VisibleCount(Len(white_pixels), Len(diamond_pixels), k - 1, num_frames)
        /\ morph_frames[k].selected =
              CullingSet(Len(white_pixels), Len(diamond_pixels), k - 1, num_frames)

\* Sixty start pixels, the last one with an edge target drawn inside the
\* diamond and with the jitter (8, -8): in the last of the eight frames it is
\* culled, in the first it is not.
C16_Witness ==
    /\ morph_pc = "done"
    /\ num_frames = MORPH_FRAMES
    /\ Len(white_pixels) = Len(diamond_pixels) + 1
    /\ \E k \in 1..Len(diamond_pixels) :
          diamond_pixels[k] = pixel_data[Len(white_pixels)].target
    /\ pixel_data[1].control # <<pixel_data[1].start[1] + pixel_data[1].target[1],
                                 pixel_data[1].start[2] + pixel_data[1].target[2]>>
    /\ Len(white_pixels) \in morph_frames[1].selected
    /\ Len(white_pixels) \notin morph_frames[MORPH_FRAMES].selected

\* The pixel data have just been assigned; no step changes them later.
Assigned == morph_pc = "frames" /\ morph_frames = <<>>

\* p comes before q in the order of "for y in range(h) for x in range(w)".
RowMajorBefore(p, q) == p[2] < q[2] \/ (p[2] = q[2] /\ p[1] < q[1])

\* C24: once the targets are assigned, the start pixels and the pixels of
\* the final set are both in row-major order; start pixel i has the i-th
\* pixel of the final set as its target and is flagged "survives" exactly
\* when i is within the final set's count (i < |final set| counted from 0);
\* the surviving pixels have pairwise distinct targets, there are
\* min(|start set|, |final set|) of them, and every other start pixel is
\* flagged as not surviving.
C24_Pairing ==
    Assigned =>
        LET total_start == Len(white_pixels)
            total_final == Len(diamond_pixels)
            survivors   == {i \in 1..Len(pixel_data) : pixel_data[i].survives}
        IN  /\ \A i \in 1..(total_start - 1) :
                  RowMajorBefore(white_pixels[i], white_pixels[i + 1])
            /\ \A i \in 1..(total_final - 1) :
                  RowMajorBefore(diamond_pixels[i], diamond_pixels[i + 1])
            /\ Len(pixel_data) = total_start
            /\ \A i \in 1..total_start :
                  /\ pixel_data[i].start = white_pixels[i]
                  /\ pixel_data[i].survives <=> i - 1 < total_final
                  /\ pixel_data[i].survives => pixel_data[i].target = diamond_pixels[i]
            /\ Cardinality({pixel_data[i].target : i \in survivors})
                  = Cardinality(survivors)
            /\ Cardinality(survivors) = Min2(total_start, total_final)
            /\ \A i \in (1..total_start) \ survivors : ~pixel_data[i].survives

\* Sixty start pixels for the 59 of the diamond: the 59th is paired with the
\* last pixel of the diamond and survives, the 60th does not.
C24_Witness ==
    /\ Assigned
    /\ Len(diamond_pixels) = 59
    /\ Len(white_pixels) = 60
    /\ pixel_data[59].survives
    /\ pixel_data[59].target = diamond_pixels[59]
    /\ pixel_data[1].target = diamond_pixels[1]
    /\ ~pixel_data[60].survives

\* floor(start * (1 - 0.4 p) + final * 0.4 p) for p = f / (n - 1): the
\* whole number m with m <= the sum < m + 1, the sum taken over 5 (n - 1).
FloorOfBlend(total_start, total_final, f, n) ==
    CHOOSE m \in 0..(total_start + total_final) :
        /\ m * 5 * (n - 1) <= total_start * (5 * (n - 1) - 2 * f) + total_final * 2 * f
        /\ total_start * (5 * (n - 1) - 2 * f) + total_final * 2 * f < (m + 1) * 5 * (n - 1)

C25_WitnessSmall ==
    /\ morph_pc = "done"
    /\ num_frames = num_morph_frames
    /\ Len(white_pixels) = 30
    /\ morph_frames[1].visible_count = 59
    /\ morph_frames[num_morph_frames].visible_count = 59
    /\ DOMAIN morph_frames[num_morph_frames].drawn = 1..30

C27_FirstFrameIsStart ==
    Len(morph_frames) = 1 =>
        LET first == morph_frames[1]
        IN  /\ first.progress[1] = 0
            /\ first.selected = 1..Len(white_pixels)
            /\ DOMAIN first.drawn = 1..Len(white_pixels)
            /\ \A i \in 1..Len(white_pixels) : first.drawn[i] = white_pixels[i]
            /\ {first.drawn[i] : i \in DOMAIN first.drawn} = SetOf(white_pixels)

\* Ten start pixels, fewer than the diamond has: all ten are in frame 0.
C27_WitnessSmall ==
    /\ Len(morph_frames) = 1
    /\ Len(white_pixels) = 10
    /\ Cardinality({morph_frames[1].drawn[i] : i \in DOMAIN morph_frames[1].drawn}) = 10

\* Sixty start pixels over the diamond of a back sprite's neighbour block,
\* more than the diamond has: frame 0 shows all sixty where they started.
C27_Witness ==
    /\ Len(morph_frames) = 1
    /\ Len(white_pixels) = 60
    /\ white_pixels[1] = <<40, 45>>
    /\ morph_frames[1].drawn[60] = white_pixels[60]
    /\ ~pixel_data[60].survives
    /\ Cardinality({morph_frames[1].drawn[i] : i \in DOMAIN morph_frames[1].drawn}) = 60

\* C28: every pixel the last frame of a morph draws lies inside the target
\* diamond, the pixels drawn at their random edge targets (not surviving,
\* but below the visible count) included; so when the silhouette has at
\* least as many pixels as the diamond, the last frame's opaque set is
\* exactly the diamond.
C28_LastFrameInsideDiamond ==
    (num_frames >= 2 /\ Len(morph_frames) = num_frames) =>
        LET last  == morph_frames[num_frames]
            drawn == {last.drawn[i] : i \in DOMAIN last.drawn}
        IN  /\ last.progress = <<num_frames - 1, num_frames - 1>>
            /\ DOMAIN last.drawn = last.selected
            /\ \A i \in DOMAIN last.drawn :
                  /\ last.drawn[i] = pixel_data[i].target
                  /\ last.drawn[i] \in DiamondSet
            /\ Len(white_pixels) >= Cardinality(DiamondSet) => drawn = DiamondSet

\* Two start pixels more than the diamond's 59: in the last frame the first
\* of them, which does not survive, is below the visible count of 60 and is
\* drawn at its edge target, three pixels from the centre; the second is
\* culled.
C28_Witness ==
    /\ morph_pc = "done"
    /\ num_frames = 2
    /\ Len(white_pixels) = Len(diamond_pixels) + 2
    /\ morph_frames[2].visible_count = Len(diamond_pixels) + 1
    /\ ~pixel_data[Len(diamond_pixels) + 1].survives
    /\ (Len(diamond_pixels) + 1) \in DOMAIN morph_frames[2].drawn
    /\ (Len(diamond_pixels) + 2) \notin DOMAIN morph_frames[2].drawn
    /\ morph_frames[2].drawn[Len(diamond_pixels) + 1] =
          <<Centre(FRAME_SIZE, FRAME_SIZE, is_back)[1] + 3,
            Centre(FRAME_SIZE, FRAME_SIZE, is_back)[2] - 1>>

\* ------------------------------------------------------------------------
\* save_and_compress_png and the compression tool (createAttackSpritesheets.py
\* lines 187-212, createSpritesheets.py lines 103-128)
\* ------------------------------------------------------------------------

\* How subprocess.run on the tool can end: it returns with code 0 or with
\* another code, the binary is missing, the timeout passes, or it raises
\* some other exception (a PermissionError, say).
ToolOutcomes ==
    {"returncode 0", "returncode 1", "FileNotFoundError", "TimeoutExpired", "Exception"}

\* The tool whose handlers let the timeout through.
run_oxipng_timeout_uncaught(outcome) ==
    [raised     |-> IF outcome = "TimeoutExpired" THEN outcome ELSE "",
     compressed |-> outcome = "returncode 0"]

\* run_oxipng (lines 187-205): the except clauses take FileNotFoundError,
\* TimeoutExpired and every other Exception; the file is compressed when the
\* tool returned 0.
run_oxipng(outcome) ==
    [raised     |-> IF outcome \in {"FileNotFoundError", "TimeoutExpired", "Exception"}
                    THEN ""
                    ELSE IF outcome \in {"returncode 0", "returncode 1"} THEN ""
                    ELSE outcome,
     compressed |-> outcome = "returncode 0"]

\* run_pngout (createSpritesheets.py lines 103-120): the same handlers around
\* pngout.
run_pngout(outcome) ==
    [raised     |-> IF outcome \in {"FileNotFoundError", "TimeoutExpired", "Exception"}
                    THEN ""
                    ELSE IF outcome \in {"returncode 0", "returncode 1"} THEN ""
                    ELSE outcome,
     compressed |-> outcome = "returncode 0"]

\* The calls of save_and_compress_png of create_attack_spritesheets, in order
\* (lines 355-362, 402-409): the standard atlas if there are standard frames,
\* the combined one if there are others, each again for the munch directory.
AttackSaves(standard, non_standard, munch) ==
    (IF standard
     THEN <<"attack_spritesheet.png">>
          \o (IF munch THEN <<"munch/attack_spritesheet.png">> ELSE <<>>)
     ELSE <<>>)
    \o (IF non_standard
        THEN <<"non_standard_spritesheet.png">>
             \o (IF munch THEN <<"munch/non_standard_spritesheet.png">> ELSE <<>>)
        ELSE <<>>)

\* The calls of create_spritesheets (createSpritesheets.py lines 159-176).
MonSaves(munch) ==
    <<"mon_spritesheet.png", "mon_switch.png">>
    \o (IF munch THEN <<"munch/mon_spritesheet.png", "munch/mon_switch.png">> ELSE <<>>)

InitSave ==
    /\ PackIdle /\ DedupIdle /\ SliceIdle /\ RunIdle /\ MorphIdle /\ SilhouetteIdle
    /\ SwitchGifIdle
    /\ DeployIdle /\ MoveCheckIdle
    /\ save_script \in {"attack", "mon"}
    /\ save_plan \in IF save_script = "attack"
                     THEN {AttackSaves(st, ns, m) : st \in BOOLEAN, ns \in BOOLEAN,
                                                    m \in BOOLEAN} \ {<<>>}
                     ELSE {MonSaves(m) : m \in BOOLEAN}
    /\ save_idx = 0
    /\ saved = NoMap
    /\ tool_outcome = ""
    /\ json_saved = FALSE
    /\ save_pc = "save"

\* save_and_compress_png, first line: sheet.save(path, "PNG").
SaveSheet ==
    /\ save_pc = "save"
    /\ saved' = (save_plan[save_idx + 1] :> "uncompressed") @@ saved
    /\ save_pc' = "compress"
    /\ UNCHANGED <<save_script, save_plan, save_idx, tool_outcome, json_saved>>
    /\ UNCHANGED notSaveVars

\* save_and_compress_png, last line: the tool runs on the saved file, ending
\* in one of its outcomes; what it raises and nothing catches ends the run.
SaveCompress ==
    /\ save_pc = "compress"
    /\ \E outcome \in ToolOutcomes :
          LET done == IF save_script = "attack"
                      THEN run_oxipng(outcome) ELSE run_pngout(outcome)
          IN  /\ tool_outcome' = outcome
              /\ saved' = IF done.compressed
                          THEN (save_plan[save_idx + 1] :> "compressed") @@ saved
                          ELSE saved
              /\ save_idx' = save_idx + 1
              /\ save_pc' = IF done.raised # "" THEN "raised"
                            ELSE IF save_idx + 1 < Len(save_plan) THEN "save"
                            ELSE "json"
    /\ UNCHANGED <<save_script, save_plan, json_saved>>
    /\ UNCHANGED notSaveVars

\* json_path.write_text(compact_json(metadata)), after the last atlas.
SaveJson ==
    /\ save_pc = "json"
    /\ json_saved' = TRUE
    /\ save_pc' = "done"
    /\ UNCHANGED <<save_script, save_plan, save_idx, saved, tool_outcome>>
    /\ UNCHANGED notSaveVars

NextSave ==
    \/ SaveSheet
    \/ SaveCompress
    \/ SaveJson

SpecSave == InitSave /\ [][NextSave]_vars

\* C12: however the calls of the compression tool end, nothing is raised, a
\* file the tool has been run on is on disk, compressed only if the tool
\* returned 0, the run is never stuck before its end, and at its end every
\* atlas of the plan is on disk and the metadata document is written.
C12_CompressionNeverFatal ==
    /\ save_pc # "raised"
    /\ \A k \in 1..save_idx : save_plan[k] \in DOMAIN saved
    /\ (save_pc \in {"save", "json", "done"} /\ tool_outcome \notin {"", "returncode 0"})
          => saved[save_plan[save_idx]] = "uncompressed"
    /\ save_pc \in {"save", "compress", "json"} => ENABLED NextSave
    /\ save_pc = "done" =>
          /\ json_saved
          /\ DOMAIN saved = {save_plan[k] : k \in 1..Len(save_plan)}

\* The attack run with both atlases and the munch copies: the tool timed out
\* on the last one, the four files are on disk, the first not compressed, and
\* the document is written.
C12_Witness ==
    /\ save_script = "attack"
    /\ save_pc = "done"
    /\ Len(save_plan) = 4
    /\ tool_outcome = "TimeoutExpired"
    /\ saved["attack_spritesheet.png"] = "uncompressed"
    /\ saved["munch/non_standard_spritesheet.png"] = "uncompressed"
    /\ Cardinality(DOMAIN saved) = 4
    /\ json_saved

\* ------------------------------------------------------------------------
\* to_white_silhouette (createSpritesheets.py lines 36-40) and
\* create_white_frame (spritesheet.py lines 75-99)
\* ------------------------------------------------------------------------

\* Frames of at most this many pixels.
MaxArea == 4

\* RGBA pixels, as img.convert('RGBA') yields them: transparent with and
\* without colour, translucent, opaque coloured, opaque white.
RgbaPixels ==
    {<<0, 0, 0, 0>>, <<10, 20, 30, 0>>, <<10, 20, 30, 1>>, <<10, 20, 30, 255>>,
     <<255, 255, 255, 255>>}

\* The frames: a size and the pixels getdata yields, row by row.
RgbaFrames ==
    UNION {{[size |-> <<w, h>>, data |-> d] : d \in [1..(w * h) -> RgbaPixels]}
           : <<w, h>> \in {wh \in (1..MaxArea) \X (1..MaxArea) : wh[1] * wh[2] <= MaxArea}}

\* The silhouette that keeps only the fully opaque pixels.
to_white_silhouette_opaque_only(frame) ==
    [size |-> frame.size,
     data |-> [k \in 1..Len(frame.data) |->
                  IF frame.data[k][4] = 255 THEN <<255, 255, 255, 255>>
                  ELSE <<0, 0, 0, 0>>]]

\* to_white_silhouette: a new image of frame.size, white where p[3] > 0.
to_white_silhouette(frame) ==
    [size |-> frame.size,
     data |-> [k \in 1..Len(frame.data) |->
                  IF frame.data[k][4] > 0 THEN <<255, 255, 255, 255>>
                  ELSE <<0, 0, 0, 0>>]]

\* create_white_frame: a new image of the frame's width and height; a pixel
\* of four channels is transparent if its alpha is 0 and white otherwise, a
\* pixel of another length is white.
create_white_frame(frame) ==
    [size |-> <<frame.size[1], frame.size[2]>>,
     data |-> [k \in 1..Len(frame.data) |->
                  IF Len(frame.data[k]) = 4
                  THEN IF frame.data[k][4] = 0 THEN <<0, 0, 0, 0>>
                       ELSE <<255, 255, 255, 255>>
                  ELSE <<255, 255, 255, 255>>]]

Silhouette(fn, frame) ==
    IF fn = "to_white_silhouette" THEN to_white_silhouette(frame)
    ELSE create_white_frame(frame)

InitSilhouette ==
    /\ PackIdle /\ DedupIdle /\ SliceIdle /\ RunIdle /\ MorphIdle /\ SaveIdle
    /\ SwitchGifIdle
    /\ DeployIdle /\ MoveCheckIdle
    /\ silhouette_of \in {"to_white_silhouette", "create_white_frame"}
    /\ original_frame \in RgbaFrames
    /\ white_frame = <<>>
    /\ white_again = <<>>

\* white = to_white_silhouette(frames[0]) (createSpritesheets.py line 147),
\* white_frame = create_white_frame(first_frame) (spritesheet.py line 341).
SilhouetteCall ==
    /\ silhouette_of # ""
    /\ white_frame = <<>>
    /\ white_frame' = Silhouette(silhouette_of, original_frame)
    /\ UNCHANGED <<silhouette_of, original_frame, white_again>>
    /\ UNCHANGED notSilhouetteVars

\* The same function on its own output.
SilhouetteAgain ==
    /\ white_frame # <<>>
    /\ white_again = <<>>
    /\ white_again' = Silhouette(silhouette_of, white_frame)
    /\ UNCHANGED <<silhouette_of, original_frame, white_frame>>
    /\ UNCHANGED notSilhouetteVars

NextSilhouette ==
    \/ SilhouetteCall
    \/ SilhouetteAgain

SpecSilhouette == InitSilhouette /\ [][NextSilhouette]_vars

\* The indices of the pixels of a frame whose alpha is above 0.
OpaqueMask(frame) == {k \in 1..Len(frame.data) : frame.data[k][4] > 0}

\* C14: the silhouette has the size and the number of pixels of the frame,
\* a pixel of alpha above 0 has become (255,255,255,255) and a pixel of alpha
\* 0 has become (0,0,0,0), so the mask of the silhouette is the mask of the
\* frame; and the silhouette of the silhouette is the silhouette.
C14_Silhouette ==
    /\ white_frame # <<>> =>
          /\ white_frame.size = original_frame.size
          /\ Len(white_frame.data) = Len(original_frame.data)
          /\ \A k \in 1..Len(original_frame.data) :
                white_frame.data[k] = IF original_frame.data[k][4] > 0
                                      THEN <<255, 255, 255, 255>>
                                      ELSE <<0, 0, 0, 0>>
          /\ OpaqueMask(white_frame) = OpaqueMask(original_frame)
    /\ white_again # <<>> => white_again = white_frame

\* A 2 x 2 frame with a translucent pixel, a coloured transparent one, an
\* opaque one and a clear one, silhouetted twice by to_white_silhouette.
C14_Witness ==
    /\ silhouette_of = "to_white_silhouette"
    /\ white_again # <<>>
    /\ original_frame.size = <<2, 2>>
    /\ original_frame.data =
          <<<<10, 20, 30, 1>>, <<10, 20, 30, 0>>, <<10, 20, 30, 255>>, <<0, 0, 0, 0>>>>
    /\ white_frame.data =
          <<<<255, 255, 255, 255>>, <<0, 0, 0, 0>>, <<255, 255, 255, 255>>, <<0, 0, 0, 0>>>>

\* The same frame silhouetted twice by create_white_frame.
C14_WitnessLegacy ==
    /\ silhouette_of = "create_white_frame"
    /\ white_again # <<>>
    /\ original_frame.data =
          <<<<10, 20, 30, 1>>, <<10, 20, 30, 0>>, <<10, 20, 30, 255>>, <<0, 0, 0, 0>>>>
    /\ OpaqueMask(white_again) = {1, 3}

\* ------------------------------------------------------------------------
\* process_gif_folder and process_single_gif (src/drool/switch-animation.py
\* lines 5-86)
\* ------------------------------------------------------------------------

\* num_frames=5 of line 54.
switch_num_frames == 5

\* The base names of the GIFs of the input folder.
SwitchGifNames == {"aurox", "ekineki", "embursa"}

\* What a GIF of the folder may be: 96x96 in RGBA or in palette mode, of
\* another size, or a file Image.open cannot read.
SwitchGifKinds ==
    {[size |-> <<96, 96>>, mode |-> "RGBA", readable |-> TRUE],
     [size |-> <<96, 96>>, mode |-> "P", readable |-> TRUE],
     [size |-> <<64, 64>>, mode |-> "P", readable |-> TRUE],
     [size |-> <<0, 0>>, mode |-> "", readable |-> FALSE]}

\* glob.glob(input_folder/*.gif): up to MaxFiles files, in any order.
Folders ==
    {f \in UNION {[1..n -> [name : SwitchGifNames, kind : SwitchGifKinds]]
                  : n \in 0..MaxFiles} :
        \A i, j \in 1..Len(f) : i # j => f[i].name # f[j].name}

\* Line 51: frame1, the white silhouette of the first frame. It shows what
\* the morph shows at progress 0.
Frame1(name) == [of |-> name, made_by |-> "create_white_frame", shows |-> 0]

\* Line 54: animation_frames, the num_frames frames of the morph of frame1.
\* The first is at progress 0: every pixel at its start, every pixel
\* visible.
AnimationFrames(name) ==
    [k \in 1..switch_num_frames |->
        [of |-> name, made_by |-> "create_morphing_animation", shows |-> k - 1]]

\* first.save(path, save_all=True, append_images=rest): the frames handed
\* to the GIF writer, in order.
SaveGif(first, rest) == <<first>> \o rest

\* Lines 66-74: frame1.save(switch_out_path, append_images=animation_frames).
SwitchOut(name) == SaveGif(Frame1(name), AnimationFrames(name))

\* Lines 78-86: reversed_frames = animation_frames[::-1];
\* reversed_frames[-1].save(switch_in_path, append_images=reversed_frames[:-1]).
SwitchIn(name) ==
    LET reversed_frames == reversed(AnimationFrames(name))
    IN  SaveGif(reversed_frames[Len(reversed_frames)],
                SubSeq(reversed_frames, 1, Len(reversed_frames) - 1))

InitSwitchGif ==
    /\ PackIdle /\ DedupIdle /\ SliceIdle /\ RunIdle /\ MorphIdle /\ SaveIdle
    /\ SilhouetteIdle /\ DeployIdle /\ MoveCheckIdle
    /\ input_folder \in Folders
    /\ gif_idx = 0
    /\ output_folder = NoMap
    /\ switch_pc = "loop"

\* Lines 19-21: no GIF in the folder, the function returns.
NoGifFiles ==
    /\ switch_pc = "loop"
    /\ input_folder = <<>>
    /\ switch_pc' = "done"
    /\ UNCHANGED <<input_folder, gif_idx, output_folder>>
    /\ UNCHANGED notSwitchGifVars

\* Lines 25-29 and 31-86: one pass of the loop. A file that cannot be opened
\* raises, the handler prints and the loop goes on; a file that is not 96x96
\* is passed over; for another the two GIFs are written.
ProcessSingleGif ==
    /\ switch_pc = "loop"
    /\ gif_idx < Len(input_folder)
    /\ LET gif == input_folder[gif_idx + 1]
       IN  output_folder' =
              IF gif.kind.readable /\ gif.kind.size = <<96, 96>>
              THEN (<<gif.name, "_switch_out.gif">> :> SwitchOut(gif.name))
                   @@ (<<gif.name, "_switch_in.gif">> :> SwitchIn(gif.name))
                   @@ output_folder
              ELSE output_folder
    /\ gif_idx' = gif_idx + 1
    /\ switch_pc' = IF gif_idx + 1 = Len(input_folder) THEN "done" ELSE "loop"
    /\ UNCHANGED input_folder
    /\ UNCHANGED notSwitchGifVars

NextSwitchGif ==
    \/ NoGifFiles
    \/ ProcessSingleGif

SpecSwitchGif == InitSwitchGif /\ [][NextSwitchGif]_vars

\* What the frames of a written GIF show, frame by frame.
Shown(gif) == [k \in 1..Len(gif) |-> gif[k].shows]

\* C20, as the specification states it: every switch-in GIF written shows the
\* frames of the switch-out GIF of the same source in reversed order, from
\* the last frame of the forward animation to the initial silhouette.
C20_AsStated ==
    \A key \in DOMAIN output_folder :
        key[2] = "_switch_in.gif" =>
            LET switch_in  == Shown(output_folder[key])
                switch_out == Shown(output_folder[<<key[1], "_switch_out.gif">>])
            IN  /\ Len(switch_in) = Len(switch_out)
                /\ \A k \in 1..Len(switch_in) :
                      switch_in[k] = switch_out[Len(switch_out) + 1 - k]
                /\ switch_in[1] = switch_num_frames - 1
                /\ switch_in[Len(switch_in)] = 0

\* What the code writes: the switch-out GIF is the silhouette and the five
\* frames of the morph, the switch-in GIF the first frame of the morph (the
\* silhouette again) and then the other four from the last back to the
\* second.
C20_SwitchInAsWritten ==
    \A key \in DOMAIN output_folder :
        /\ key[2] = "_switch_out.gif" => Shown(output_folder[key]) = <<0, 0, 1, 2, 3, 4>>
        /\ key[2] = "_switch_in.gif" => Shown(output_folder[key]) = <<0, 4, 3, 2, 1>>

\* Two GIFs handled, a palette one of 96x96 and one that is not 96x96: the
\* first has its two outputs, the second none.
C20_WitnessWritten ==
    /\ switch_pc = "done"
    /\ Len(input_folder) = 2
    /\ input_folder[1].kind.mode = "P" /\ input_folder[1].kind.size = <<96, 96>>
    /\ input_folder[2].kind.size # <<96, 96>>
    /\ DOMAIN output_folder = {<<input_folder[1].name, "_switch_out.gif">>,
                               <<input_folder[1].name, "_switch_in.gif">>}

\* ------------------------------------------------------------------------
\* run.py: the deploy flow, and main of createAddressAndABIs.py
\* ------------------------------------------------------------------------

\* run.py lines 199-203.
DEPLOY_SCRIPTS == <<"EngineAndPeriphery", "SetupMons", "SetupCPU">>

\* Most KEY=VALUE lines one forge script's output yields.
MaxEnvLines == 2

\* What parse_deploy_output (run.py lines 144-150, deployToEnv.py lines
\* 27-37) can return for one script: the DeployData entries found in its
\* output, the name upper-cased with "_" for " " and "-", the address as
\* printed. A script that deploys nothing yields no line.
DeployData(script_name) ==
    CASE script_name = "EngineAndPeriphery" ->
            <<<<"ENGINE", "0xAb01">>, <<"COMMIT_MANAGER", "0xCD02">>,
              <<"TYPE_CALCULATOR", "0xaa04">>>>
      [] script_name = "SetupMons" ->
            <<<<"GHOULIATH", "0xEf03">>, <<"ENGINE", "0xEf03">>,
              <<"INUTIA", "0xBB05">>>>
      [] OTHER ->
            <<<<"CPU_MOVE_MANAGER", "0xaa04">>, <<"OKAY_CPU", "0xBB05">>,
              <<"RANDOM_CPU", "0xCD02">>>>

ForgeOutputs(script_name) ==
    {SubSeq(DeployData(script_name), 1, k) :
        k \in 0..Min2(MaxEnvLines, Len(DeployData(script_name)))}

\* update_env_file, run.py lines 153-177: the values of the new lines
\* replace or extend those of the file, the last line of a key wins.
RECURSIVE update_env_file(_, _)
update_env_file(existing, env_lines) ==
    IF env_lines = <<>> THEN existing
    ELSE LET line == Head(env_lines)
         IN  update_env_file(
                 [key \in DOMAIN existing \cup {line[1]} |->
                     IF key = line[1] THEN line[2] ELSE existing[key]],
                 Tail(env_lines))

\* str.lower() of the address values that occur.
lower(value) ==
    CASE value = "0xAb01" -> "0xab01"
      [] value = "0xCD02" -> "0xcd02"
      [] value = "0xEf03" -> "0xef03"
      [] value = "0xBB05" -> "0xbb05"
      [] OTHER -> value

\* createAddressAndABIs.py line 37: the key upper-cased, with every
\* character outside A-Z, 0-9 and _ removed.
NormalizedKey(key) ==
    CASE key = "engine" -> "ENGINE"
      [] key = "okay-cpu" -> "OKAYCPU"
      [] OTHER -> key

\* parse_addresses_from_content, createAddressAndABIs.py lines 24-44: one
\* entry per key, a later line replacing an earlier one.
parse_addresses_from_content(content) ==
    LET keys == {NormalizedKey(content[k][1]) : k \in 1..Len(content)}
        last(key) == CHOOSE k \in 1..Len(content) :
                        /\ NormalizedKey(content[k][1]) = key
                        /\ \A j \in (k + 1)..Len(content) :
                              NormalizedKey(content[j][1]) # key
    IN  [key \in keys |-> lower(content[last(key)][2])]

\* The network flags form a mutually exclusive group that is required
\* (createAddressAndABIs.py line 320).
network_group_required == TRUE

\* parser.parse_args() of createAddressAndABIs.py, lines 306-332: --stdin,
\* and the group of -m/--mainnet and -t/--testnet. An unknown argument, both
\* flags of the group, or none of them when the group is required, is a
\* usage error: argparse prints it and exits with status 2.
abis_parse_args(argv) ==
    LET given(flags) == \E k \in 1..Len(argv) : argv[k] \in flags
        mainnet == given({"-m", "--mainnet"})
        testnet == given({"-t", "--testnet"})
        known   == {"--stdin", "-m", "--mainnet", "-t", "--testnet"}
    IN  IF \/ \E k \in 1..Len(argv) : argv[k] \notin known
           \/ mainnet /\ testnet
           \/ network_group_required /\ ~mainnet /\ ~testnet
        THEN [error |-> TRUE, stdin |-> FALSE, mainnet |-> FALSE]
        ELSE [error |-> FALSE, stdin |-> given({"--stdin"}), mainnet |-> mainnet]

\* main of createAddressAndABIs.py, lines 304-350, started with argv, with
\* content on its standard input, output_txt the file output.txt (whether
\* it exists, and its lines), and logic_ok telling whether run_main_logic
\* ran through.
abis_main(argv, content, output_txt, logic_ok) ==
    LET args == abis_parse_args(argv)
        network == IF args.mainnet THEN "MAINNET" ELSE "TESTNET"
        rejected == [returncode |-> 2, accepted |-> FALSE, network |-> "",
                     addresses |-> NoMap, processed |-> FALSE]
    IN  IF args.error THEN rejected
        ELSE IF ~args.stdin /\ ~output_txt.exists
        THEN [returncode |-> 0, accepted |-> TRUE, network |-> network,
              addresses |-> NoMap, processed |-> FALSE]
        ELSE [returncode |-> IF logic_ok THEN 0 ELSE 1,
              accepted |-> TRUE,
              network |-> network,
              addresses |-> parse_addresses_from_content(
                                IF args.stdin THEN content
                                ELSE output_txt.lines),
              processed |-> logic_ok]

\* The argument list run_create_address_and_abis passes (run.py line 189).
run_create_address_and_abis_argv == <<"--stdin">>

\* Argument lists a user starts createAddressAndABIs.py with.
AbisArgvs ==
    {<<>>, <<"--stdin">>, <<"-t">>, <<"--mainnet">>, <<"--stdin", "-t">>,
     <<"--stdin", "--mainnet">>, <<"-m", "-t">>, <<"--stdin", "--dry-run">>}

\* Contents of the standard input, or of output.txt.
AbisContents ==
    {<<>>,
     <<<<"engine", "0xAb01">>>>,
     <<<<"ENGINE", "0xAb01">>, <<"okay-cpu", "0xBB05">>>>,
     <<<<"ENGINE", "0xAb01">>, <<"engine", "0xCD02">>>>}

\* The file output.txt: absent, or holding KEY=VALUE lines.
OutputTxts ==
    {[exists |-> FALSE, lines |-> <<>>]}
    \cup {[exists |-> TRUE, lines |-> content] : content \in AbisContents}

\* The .env file before the run.
EnvFiles == {NoMap, [key \in {"ENGINE"} |-> "0x0000"]}

InitRunPy ==
    /\ PackIdle /\ DedupIdle /\ SliceIdle /\ RunIdle /\ MorphIdle /\ SaveIdle
    /\ SilhouetteIdle /\ SwitchGifIdle /\ MoveCheckIdle
    /\ deploy_entry = "run.py"
    /\ mons_returncode = -1
    /\ proceed_response = ""
    /\ deploy_done = 0
    /\ all_env_lines = <<>>
    /\ env_file \in EnvFiles
    /\ abis_argv = <<>>
    /\ abis_stdin = <<>>
    /\ abis_result = NoAbisResult
    /\ deploy_exit = -1
    /\ deploy_pc = "step1"

InitAbisCli ==
    /\ PackIdle /\ DedupIdle /\ SliceIdle /\ RunIdle /\ MorphIdle /\ SaveIdle
    /\ SilhouetteIdle /\ SwitchGifIdle /\ MoveCheckIdle
    /\ deploy_entry = "createAddressAndABIs.py"
    /\ mons_returncode = -1
    /\ proceed_response = ""
    /\ deploy_done = 0
    /\ all_env_lines = <<>>
    /\ env_file = NoMap
    /\ abis_argv \in AbisArgvs
    /\ abis_stdin \in AbisContents
    /\ abis_result = NoAbisResult
    /\ deploy_exit = -1
    /\ deploy_pc = "abis"

InitDeploy == InitRunPy \/ InitAbisCli

\* run_create_mons_and_moves, run.py lines 29-49, and lines 241-243 of main:
\* createMonsAndMoves.py runs; a return code other than 0, or an answer
\* other than y (stripped, lower-cased), ends run.py with status 1.
RunCreateMonsAndMoves ==
    /\ deploy_pc = "step1"
    /\ \E returncode \in {0, 1}, response \in {"y", "n", "yes"} :
          /\ mons_returncode' = returncode
          /\ proceed_response' = IF returncode = 0 THEN response ELSE ""
          /\ IF returncode = 0 /\ response = "y"
             THEN deploy_pc' = "forge" /\ deploy_exit' = deploy_exit
             ELSE deploy_pc' = "exit" /\ deploy_exit' = 1
    /\ UNCHANGED <<deploy_entry, deploy_done, all_env_lines, env_file, abis_argv,
                   abis_stdin, abis_result>>
    /\ UNCHANGED notDeployVars

\* One pass of the loop of deploy_all_scripts, run.py lines 213-225: the
\* forge script runs; if it fails run.py exits with status 1, else its
\* lines are collected and written to .env.
DeployScript ==
    /\ deploy_pc = "forge"
    /\ deploy_done < Len(DEPLOY_SCRIPTS)
    /\ LET script_name == DEPLOY_SCRIPTS[deploy_done + 1]
       IN  \E success \in BOOLEAN, env_lines \in ForgeOutputs(script_name) :
              IF ~success
              THEN /\ deploy_pc' = "exit"
                   /\ deploy_exit' = 1
                   /\ UNCHANGED <<deploy_done, all_env_lines, env_file>>
              ELSE /\ all_env_lines' = all_env_lines \o env_lines
                   /\ env_file' = update_env_file(env_file, env_lines)
                   /\ deploy_done' = deploy_done + 1
                   /\ deploy_pc' = IF deploy_done + 1 = Len(DEPLOY_SCRIPTS)
                                   THEN "abis" ELSE "forge"
                   /\ deploy_exit' = deploy_exit
    /\ UNCHANGED <<deploy_entry, mons_returncode, proceed_response, abis_argv,
                   abis_stdin, abis_result>>
    /\ UNCHANGED notDeployVars

\* run_create_address_and_abis, run.py lines 180-195, and lines 257-268 of
\* main: createAddressAndABIs.py is started with --stdin and the collected
\* lines on its standard input; a return code other than 0 ends run.py with
\* status 1 after "createAddressAndABIs.py failed", return code 0 is followed
\* by "DEPLOYMENT COMPLETE!".
RunCreateAddressAndABIs ==
    /\ deploy_entry = "run.py"
    /\ deploy_pc = "abis"
    /\ \E logic_ok \in BOOLEAN :
          LET outcome == abis_main(run_create_address_and_abis_argv,
                                  all_env_lines,
                                   [exists |-> FALSE, lines |-> <<>>], logic_ok)
          IN  /\ abis_argv' = run_create_address_and_abis_argv
              /\ abis_stdin' = all_env_lines
              /\ abis_result' = outcome
              /\ IF outcome.returncode = 0
                 THEN deploy_pc' = "complete" /\ deploy_exit' = 0
                 ELSE deploy_pc' = "exit" /\ deploy_exit' = 1
    /\ UNCHANGED <<deploy_entry, mons_returncode, proceed_response, deploy_done,
                   all_env_lines, env_file>>
    /\ UNCHANGED notDeployVars

\* createAddressAndABIs.py started from the command line.
AbisFromCommandLine ==
    /\ deploy_entry = "createAddressAndABIs.py"
    /\ deploy_pc = "abis"
    /\ \E logic_ok \in BOOLEAN, output_txt \in OutputTxts :
          LET outcome == abis_main(abis_argv, abis_stdin, output_txt, logic_ok)
          IN  /\ abis_result' = outcome
              /\ deploy_exit' = outcome.returncode
    /\ deploy_pc' = "exit"
    /\ UNCHANGED <<deploy_entry, mons_returncode, proceed_response, deploy_done,
                   all_env_lines, env_file, abis_argv, abis_stdin>>
    /\ UNCHANGED notDeployVars

NextDeploy ==
    \/ RunCreateMonsAndMoves
    \/ DeployScript
    \/ RunCreateAddressAndABIs
    \/ AbisFromCommandLine

SpecDeploy == InitDeploy /\ [][NextDeploy]_vars

\* C21 as stated: in run.py, once createMonsAndMoves.py has succeeded and
\* been confirmed and the three forge scripts have succeeded, the invocation
\* of createAddressAndABIs.py is accepted, the script processes the
\* addresses of all collected lines, and run.py reaches "DEPLOYMENT
\* COMPLETE" (unless run_main_logic itself fails).
C21_AsStated ==
    (/\ deploy_entry = "run.py"
     /\ mons_returncode = 0 /\ proceed_response = "y"
     /\ deploy_done = Len(DEPLOY_SCRIPTS)
     /\ abis_result # NoAbisResult)
    => /\ abis_result.accepted
       /\ abis_result.addresses = parse_addresses_from_content(all_env_lines)
       /\ abis_result.returncode = 0 => deploy_pc = "complete" /\ deploy_exit = 0
       /\ abis_result.returncode # 1 => abis_result.processed

\* What run.py does: the argument list it passes names no network, so
\* argparse rejects it with status 2 before any address is read, and run.py
\* ends with status 1; "DEPLOYMENT COMPLETE" is never reached.
C21_InvocationRejected ==
    deploy_entry = "run.py" =>
        /\ deploy_pc # "complete"
        /\ deploy_exit # 0
        /\ abis_result # NoAbisResult =>
              /\ abis_argv = <<"--stdin">>
              /\ abis_result.returncode = 2
              /\ ~abis_result.accepted /\ ~abis_result.processed
              /\ abis_result.addresses = NoMap
              /\ deploy_pc = "exit" /\ deploy_exit = 1

\* The three scripts have succeeded, lines were collected, and the last
\* step has been taken.
C21_WitnessAllDeployed ==
    /\ deploy_entry = "run.py"
    /\ mons_returncode = 0 /\ proceed_response = "y"
    /\ deploy_done = Len(DEPLOY_SCRIPTS)
    /\ Len(all_env_lines) >= 3
    /\ abis_result # NoAbisResult
    /\ abis_stdin = all_env_lines
    /\ deploy_pc = "exit"

\* The same script started with --stdin and a network flag is accepted and
\* processes the lines of its standard input.
C21_WitnessAcceptedWithNetwork ==
    /\ deploy_entry = "createAddressAndABIs.py"
    /\ abis_argv = <<"--stdin", "-t">>
    /\ abis_result # NoAbisResult
    /\ abis_result.accepted /\ abis_result.processed
    /\ abis_result.network = "TESTNET"
    /\ DOMAIN abis_result.addresses = {"ENGINE", "OKAYCPU"}
    /\ deploy_exit = 0

\* ------------------------------------------------------------------------
\* createMonsAndMoves.py and generateDeployMon.py: move check, then
\* monStatsToSol.py, then combine.py
\* ------------------------------------------------------------------------

\* Most rows of drool/moves.csv.
MaxMoves == 2

\* A row of the CSV against the contracts under src/: the contract agrees
\* with the row, differs from it, or is not found.
MoveKinds == {"ok", "mismatch", "missing"}

MoveLists == UNION {[1..n -> MoveKinds] : n \in 0..MaxMoves}

\* The loop of run_validation, moveCheck.py lines 362-374: a row whose
\* contract is missing is passed over, every other row gets a result whose
\* errors are empty exactly when the contract agrees.
RECURSIVE validate_moves(_)
validate_moves(csv_rows) ==
    IF csv_rows = <<>> THEN <<>>
    ELSE IF Head(csv_rows) = "missing" THEN validate_moves(Tail(csv_rows))
    ELSE <<[errors |-> Head(csv_rows) = "mismatch"]>> \o validate_moves(Tail(csv_rows))

\* sum(1 for result in validation_results if result['errors']).
moves_with_errors(results) ==
    Cardinality({k \in 1..Len(results) : results[k].errors})

\* update_all_contracts, moveCheck.py lines 600-623: every contract with
\* errors is rewritten from the CSV, or left as it is when
\* update_contract_file finds nothing it can change.
UpdatedMoves(csv_rows) ==
    {[k \in 1..Len(csv_rows) |-> IF k \in updated THEN "ok" ELSE csv_rows[k]] :
        updated \in SUBSET {k \in 1..Len(csv_rows) : csv_rows[k] = "mismatch"}}

\* The state of the contracts after run_validation (lines 385-393): the
\* user is asked only if some move has errors, and the contracts are
\* updated only on the answer y.
AfterValidation(csv_rows, response) ==
    IF moves_with_errors(validate_moves(csv_rows)) > 0 /\ response = "y"
    THEN UpdatedMoves(csv_rows)
    ELSE {csv_rows}

\* The answers asked for (stripped and lower-cased, line 389).
UpdateResponses == {"y", "n"}

\* run_validation has no return statement (moveCheck.py line 355,
\* "-> None"): its value is None whatever the validation found.
run_validation_value(results, response) == [kind |-> "None"]

InitMoveCheck ==
    /\ PackIdle /\ DedupIdle /\ SliceIdle /\ RunIdle /\ MorphIdle /\ SaveIdle
    /\ SilhouetteIdle /\ SwitchGifIdle /\ DeployIdle
    /\ mc_script \in {"createMonsAndMoves.py", "generateDeployMon.py"}
    /\ csv_exists \in BOOLEAN
    /\ src_exists \in BOOLEAN
    /\ csv_readable \in BOOLEAN
    /\ moves \in MoveLists
    /\ validation_results = <<>>
    /\ update_responses = <<>>
    /\ mc_raised = ""
    /\ should_proceed = "unset"
    /\ steps_run = <<>>
    /\ mc_exit = -1
    /\ mc_pc = "step1"

\* Lines 39-46 of createMonsAndMoves.py, 39-46 of generateDeployMon.py: a
\* missing CSV file or source directory makes run_move_check return False,
\* and main exits with status 1 (lines 161-164, 159-162).
MoveCheckPathMissing ==
    /\ mc_pc = "step1"
    /\ ~csv_exists \/ ~src_exists
    /\ should_proceed' = "False"
    /\ mc_exit' = 1
    /\ mc_pc' = "done"
    /\ UNCHANGED <<mc_script, csv_exists, src_exists, csv_readable, moves,
                   validation_results, update_responses, mc_raised, steps_run>>
    /\ UNCHANGED notMoveCheckVars

\* run_move_check of createMonsAndMoves.py, lines 48-70, and lines 159-164
\* of main: the validator runs (asking the user and updating the contracts
\* as run_validation does); True is returned exactly when no move has
\* errors; an exception is caught and gives False.
CreateMonsMoveCheck ==
    /\ mc_script = "createMonsAndMoves.py"
    /\ mc_pc = "step1"
    /\ csv_exists /\ src_exists
    /\ IF ~csv_readable
       THEN /\ mc_raised' = "Exception"
            /\ should_proceed' = "False"
            /\ UNCHANGED <<moves, validation_results, update_responses>>
       ELSE \E response \in UpdateResponses :
              \E after \in AfterValidation(moves, response) :
                LET results == validate_moves(moves)
                IN  /\ validation_results' = results
                    /\ update_responses' =
                          IF moves_with_errors(results) > 0
                          THEN Append(update_responses, response)
                          ELSE update_responses
                    /\ moves' = after
                    /\ should_proceed' = IF moves_with_errors(results) > 0
                                         THEN "False" ELSE "True"
                    /\ mc_raised' = mc_raised
    /\ mc_pc' = IF should_proceed' = "True" THEN "step2" ELSE "done"
    /\ mc_exit' = IF should_proceed' = "True" THEN mc_exit ELSE 1
    /\ UNCHANGED <<mc_script, csv_exists, src_exists, csv_readable, steps_run>>
    /\ UNCHANGED notMoveCheckVars

\* One pass of the loop of run_move_check of generateDeployMon.py, lines
\* 49-68, and lines 157-162 of main: the validator runs, then its value is
\* unpacked into validation_passed and changes_made. A value that is not a
\* pair raises TypeError, which the handler of line 64 turns into False.
GenerateDeployMoveCheck ==
    /\ mc_script = "generateDeployMon.py"
    /\ mc_pc = "step1"
    /\ csv_exists /\ src_exists
    /\ IF ~csv_readable
       THEN /\ mc_raised' = "Exception"
            /\ should_proceed' = "False"
            /\ UNCHANGED <<moves, validation_results, update_responses>>
       ELSE \E response \in UpdateResponses :
              \E after \in AfterValidation(moves, response) :
                LET results == validate_moves(moves)
                    value == run_validation_value(results, response)
                IN  /\ validation_results' = results
                    /\ update_responses' =
                          IF moves_with_errors(results) > 0
                          THEN Append(update_responses, response)
                          ELSE update_responses
                    /\ moves' = after
                    /\ IF value.kind # "tuple"
                       THEN mc_raised' = "TypeError" /\ should_proceed' = "False"
                       ELSE /\ mc_raised' = mc_raised
                            /\ should_proceed' =
                                  IF value.validation_passed THEN "True"
                                  ELSE IF value.changes_made THEN "unset"
                                  ELSE "False"
    /\ mc_pc' = IF should_proceed' = "unset" THEN "step1"
                ELSE IF should_proceed' = "True" THEN "step2" ELSE "done"
    /\ mc_exit' = IF should_proceed' = "False" THEN 1 ELSE mc_exit
    /\ UNCHANGED <<mc_script, csv_exists, src_exists, csv_readable, steps_run>>
    /\ UNCHANGED notMoveCheckVars

\* Step 2, run_mon_stats_to_sol and lines 166-169 of main: monStatsToSol.py
\* runs; a return code other than 0 ends the script with status 1.
MonStatsToSol ==
    /\ mc_pc = "step2"
    /\ \E returncode \in {0, 1} :
          /\ steps_run' = Append(steps_run,
                                 [step |-> "monStatsToSol", returncode |-> returncode])
          /\ mc_pc' = IF returncode = 0 THEN "step3" ELSE "done"
          /\ mc_exit' = IF returncode = 0 THEN mc_exit ELSE 1
    /\ UNCHANGED <<mc_script, csv_exists, src_exists, csv_readable, moves,
                   validation_results, update_responses, mc_raised, should_proceed>>
    /\ UNCHANGED notMoveCheckVars

\* Step 3, run_combine and lines 171-179 of main: combine.py runs; the
\* script ends with status 1 if it fails and with "Success" otherwise.
Combine ==
    /\ mc_pc = "step3"
    /\ \E returncode \in {0, 1} :
          /\ steps_run' = Append(steps_run,
                                 [step |-> "combine", returncode |-> returncode])
          /\ mc_exit' = IF returncode = 0 THEN 0 ELSE 1
    /\ mc_pc' = "done"
    /\ UNCHANGED <<mc_script, csv_exists, src_exists, csv_readable, moves,
                   validation_results, update_responses, mc_raised, should_proceed>>
    /\ UNCHANGED notMoveCheckVars

NextMoveCheck ==
    \/ MoveCheckPathMissing
    \/ CreateMonsMoveCheck
    \/ GenerateDeployMoveCheck
    \/ MonStatsToSol
    \/ Combine

SpecMoveCheck == InitMoveCheck /\ [][NextMoveCheck]_vars

\* The steps that were started.
StepStarted(step) == \E k \in 1..Len(steps_run) : steps_run[k].step = step

\* Step 2 ended with return code 0.
StepSucceeded(step) ==
    \E k \in 1..Len(steps_run) :
        steps_run[k].step = step /\ steps_run[k].returncode = 0

\* An error occurred in the move check: a path is missing or an exception
\* was caught.
MoveCheckError == ~csv_exists \/ ~src_exists \/ mc_raised # ""

\* C22 as stated: when createMonsAndMoves.py has ended, step 2 was left out
\* only if the user accepted changes or an error occurred (so it ran when
\* validation passed and when the user declined), and step 3 was left out
\* only if, besides, step 2 failed.
C22_AsStated ==
    (mc_script = "createMonsAndMoves.py" /\ mc_pc = "done") =>
        /\ ~StepStarted("monStatsToSol") =>
              \/ MoveCheckError
              \/ \E k \in 1..Len(update_responses) : update_responses[k] = "y"
        /\ ~StepStarted("combine") =>
              \/ MoveCheckError
              \/ \E k \in 1..Len(update_responses) : update_responses[k] = "y"
              \/ ~StepSucceeded("monStatsToSol")

\* What createMonsAndMoves.py does: steps 2 and 3 run exactly when the
\* validation found no move with errors; if it found one, the script ends
\* with status 1 whatever the user answered.
C22_StepsOnlyWhenNoErrors ==
    (mc_script = "createMonsAndMoves.py" /\ mc_pc = "done") =>
        /\ StepStarted("monStatsToSol") <=>
              /\ ~MoveCheckError
              /\ moves_with_errors(validation_results) = 0
        /\ StepStarted("combine") <=> StepSucceeded("monStatsToSol")
        /\ update_responses # <<>> =>
              /\ steps_run = <<>>
              /\ should_proceed = "False"
              /\ mc_exit = 1

\* Validation found a move with errors, the user declined the update, and
\* the script has ended.
C22_WitnessDeclined ==
    /\ mc_script = "createMonsAndMoves.py"
    /\ mc_pc = "done"
    /\ moves_with_errors(validation_results) > 0
    /\ update_responses = <<"n">>
    /\ mc_raised = ""
    /\ steps_run = <<>>
    /\ mc_exit = 1

\* C23 as stated: in generateDeployMon.py, run_move_check returns True when
\* the validation pass found no move with errors, and main then goes on to
\* step 2 and, if that succeeds, to step 3.
C23_AsStated ==
    (/\ mc_script = "generateDeployMon.py"
     /\ mc_pc = "done"
     /\ csv_exists /\ src_exists /\ csv_readable
     /\ moves_with_errors(validation_results) = 0)
    => /\ should_proceed = "True"
       /\ StepStarted("monStatsToSol")
       /\ StepSucceeded("monStatsToSol") => StepStarted("combine")

\* What generateDeployMon.py does: run_move_check never returns True. With
\* the paths present and the CSV readable the validation runs once, the
\* unpacking of its value raises TypeError, and the script ends with status
\* 1 without step 2 or step 3, also after the user accepted changes.
C23_NeverProceeds ==
    mc_script = "generateDeployMon.py" =>
        /\ should_proceed # "True"
        /\ steps_run = <<>>
        /\ mc_exit # 0
        /\ Len(update_responses) <= 1
        /\ (should_proceed = "False" /\ csv_exists /\ src_exists /\ csv_readable)
              => mc_raised = "TypeError" /\ mc_pc = "done" /\ mc_exit = 1

\* Two moves whose contracts agree with the CSV, and the script has ended.
C23_WitnessErrorFree ==
    /\ mc_script = "generateDeployMon.py"
    /\ mc_pc = "done"
    /\ moves = <<"ok", "ok">>
    /\ Len(validation_results) = 2
    /\ moves_with_errors(validation_results) = 0
    /\ mc_raised = "TypeError"
    /\ mc_exit = 1

\* The user accepted the changes, every contract was updated, and the
\* validation was not run again.
C23_WitnessAcceptedNoRerun ==
    /\ mc_script = "generateDeployMon.py"
    /\ mc_pc = "done"
    /\ update_responses = <<"y">>
    /\ moves = <<"ok", "ok">>
    /\ moves_with_errors(validation_results) > 0
    /\ mc_exit = 1

====
